---- MODULE Spec2Model ----
(***************************************************************************)
(* Model of the pi-mogo agent runtime (pkg/agent, pkg/ai).                 *)
(*                                                                         *)
(* Spec models one run of the agent loop (loop.go) started through the     *)
(* Agent facade (agent.go): the facade's queues and cancellation handle,   *)
(* the loop goroutine, the provider stream it consumes and the agent event *)
(* stream it pushes on.  The agent event stream is recorded as the         *)
(* sequence `pushed`; the loop never pushes more than the 64 buffered      *)
(* events the channel holds within the bounds used, so a Push never blocks *)
(* and the order of pushes does not depend on the consumer.                *)
(***************************************************************************)
EXTENDS Integers, Sequences, FiniteSets, TLC

\* ------------------------------------------------------------------ bounds
MaxTurns == 2       \* stream-function invocations in one run
MaxToolCalls == 2   \* tool calls the assistant messages of one run hold
MaxSteer == 1       \* Steer() calls
MaxFollowUp == 1    \* FollowUp() calls
MaxDeltas == 1      \* delta events a provider stream delivers
MaxQueued == 2      \* messages a queue holds before the first call
MaxDequeues == 4    \* direct calls of the dequeue methods
MaxListeners == 2   \* listeners subscribed to one agent
MaxLag == 1         \* events not yet observed that let the loop go on
MaxPushes == 3      \* Push calls of the producer of an EventStream
MaxEnds == 2        \* End calls of the producer of an EventStream
MaxMessages == 3    \* agent messages given to the default converter
MaxSets == 2        \* calls of the facade's setters
MaxLines == 4       \* lines StreamProxy reads from a response body
ChannelCapacity == 64   \* make(chan T, 64)
ResultCapacity == 1     \* make(chan R, 1)

\* ---------------------------------------------------------------- messages
Null == [role |-> "none"]

UserMessage(src, n) == [role |-> "user", src |-> src, n |-> n]

\* An assistant message: the turn (stream-function invocation) it answers,
\* its stop reason, its tool calls in content order, the number of deltas
\* applied to it and its error text.
AssistantMessage(turn, stop, calls, deltas, err) ==
    [role |-> "assistant", turn |-> turn, stop |-> stop, calls |-> calls,
     deltas |-> deltas, err |-> err]

ToolResultMessage(tc, content, isError) ==
    [role |-> "toolResult", toolCallId |-> tc.id, toolName |-> tc.name,
     content |-> content, isError |-> isError]

SkippedText == "Skipped due to queued user message."

\* Stop reasons (pkg/ai types).
StopReasonStop == "stop"
StopReasonToolUse == "toolUse"
StopReasonError == "error"
StopReasonAborted == "aborted"

\* The messages Steer ("steer") or FollowUp ("followUp") queued so far.
AllQueued(src, n) == [i \in 1..n |-> UserMessage(src, i)]

\* ------------------------------------------------------------------- tools
\* The context's tool list: "add", whose schema requires a and b and whose
\* Execute returns a result, "fail", with the same schema, whose Execute
\* returns an error, and "typed", as "add" but with a schema written in Go
\* whose required list is a []string.
ToolNames == {"add", "fail", "typed"}

\* schema["required"] of a tool: a value of type any, holding a []any (as
\* decoded from JSON) or a []string.
RequiredList(name) ==
    [type |-> IF name = "typed" THEN "[]string" ELSE "[]any",
     names |-> {"a", "b"}]

Required(name) == RequiredList(name).names
ExecuteFails(name) == name = "fail"

ValidCall == [name |-> "add", args |-> {"a", "b"}]

\* What a provider may put in a tool call: a valid call, a call lacking a
\* required argument (of "add" and of "typed"), a call naming no tool of the
\* context, a valid call of the tool that fails.
ToolCallShapes ==
    { ValidCall,
      [name |-> "add", args |-> {"a"}],
      [name |-> "nope", args |-> {}],
      [name |-> "typed", args |-> {"a"}],
      [name |-> "fail", args |-> {"a", "b"}] }

ToolCall(turn, i, shape) ==
    [id |-> <<turn, i>>, name |-> shape.name, args |-> shape.args]

\* The tool-call lists of an assistant message, `room` being the number of
\* tool calls the run may still hold: the first call of any shape, the
\* others valid.
ToolCallBatches(turn, room) ==
    { [i \in 1..n |-> ToolCall(turn, i, IF i = 1 THEN first ELSE ValidCall)] :
        n \in 0..room, first \in ToolCallShapes }

\* The same with valid calls only.
ValidCallBatches(turn, room) ==
    { [i \in 1..n |-> ToolCall(turn, i, ValidCall)] : n \in 0..room }

\* ------------------------------------------------------------------ events
AgentEventStart == "agent_start"
AgentEventEnd == "agent_end"
TurnEventStart == "turn_start"
TurnEventEnd == "turn_end"
MessageEventStart == "message_start"
MessageEventUpdate == "message_update"
MessageEventEnd == "message_end"
ToolExecutionEventStart == "tool_execution_start"
ToolExecutionEventUpdate == "tool_execution_update"
ToolExecutionEventEnd == "tool_execution_end"

\* AgentEvent: msg is Message (message_*, turn_end); data is Messages
\* (agent_end), ToolResults (turn_end) or the tool-call fields
\* (tool_execution_*).
AgentEvent(type, msg, data) == [type |-> type, msg |-> msg, data |-> data]

ToolEvent(type, tc, content, isError) ==
    AgentEvent(type, Null,
               [toolCallId |-> tc.id, toolName |-> tc.name,
                content |-> content, isError |-> isError])

MessagePair(m) ==
    << AgentEvent(MessageEventStart, m, <<>>),
       AgentEvent(MessageEventEnd, m, <<>>) >>

RECURSIVE MessagePairs(_)
MessagePairs(ms) ==
    IF ms = <<>> THEN <<>>
    ELSE MessagePair(Head(ms)) \o MessagePairs(Tail(ms))

\* ------------------------------------------------------------------- state
VARIABLES
    \* Agent facade (agent.go)
    messages,          \* state.Messages
    isStreaming,       \* state.IsStreaming
    steeringQueue,     \* a.steeringQueue
    followUpQueue,     \* a.followUpQueue
    steeringMode,      \* a.steeringMode
    followUpMode,      \* a.followUpMode
    streamFnSet,       \* a.StreamFn != nil
    abortCancel,       \* a.abortCancel != nil
    aborted,           \* a.abortCtx is cancelled
    skipSteering,      \* the skipSteering flag captured by GetSteeringMessages
    nSteer, nFollowUp, \* Steer() / FollowUp() calls made so far
    \* the loop goroutine (loop.go)
    pc,                \* where the loop goroutine is
    entry,             \* "loop" (AgentLoop) or "continue" (AgentLoopContinue)
    prompts,           \* AgentLoop's prompts
    ctxMessages,       \* currentCtx.Messages
    newMessages,       \* *newMessages
    pendingMessages,   \* pendingMessages
    firstTurn,         \* firstTurn
    hasMoreToolCalls,  \* hasMoreToolCalls
    message,           \* the assistant message of the current turn
    toolIndex,         \* i of executeToolCalls (1-based)
    results,           \* results of executeToolCalls
    partialMessage,    \* partialMessage of streamAssistantResponse
    addedPartial,      \* addedPartial
    nDeltas,           \* delta events applied to the current partial message
    \* the agent event stream
    pushed,            \* the events pushed, in order
    closed,            \* the channel is closed
    result,            \* resultCh: whether it holds a value, and the value
    \* bookkeeping of the run, read by the properties only
    sfCalls,           \* the message list of each stream-function call
    executed,          \* ids of the tool calls whose Execute was invoked
    polls,             \* the queue-provider calls the loop made
    abortedAt,         \* what the loop was doing when Abort() cancelled the run
    \* Agent facade: configuration and the outcome of calls
    modelSet,          \* state.Model != nil
    lastCall,          \* the last Prompt/PromptMessages/Continue call made
    lastError,         \* the error that call returned, "" for nil
    \* Agent facade: the observer goroutine of Agent.runLoop and its state
    running,           \* a.running != nil
    runClosed,         \* the channel a.running was made as is closed
    opc,               \* where the observer goroutine is
    seen,              \* events the observer has received from the stream
    streamMessage,     \* state.StreamMessage
    pendingToolCalls,  \* state.PendingToolCalls
    stateError,        \* state.Error
    startMessages,     \* state.Messages when the run was started
    listeners,         \* a.listeners: the registered ids, in registration order
    delivered,         \* the listener calls made: listener id and event index
    waiter,            \* a WaitForIdle() call: none, blocked or returned
    snapshot,          \* the listeners the observer copied for one event
    esCh,              \* an EventStream: the events buffered in its channel
    esClosed,          \* an EventStream: its channel is closed
    esResultCh,        \* an EventStream: the values buffered in resultCh
    esProd,            \* the producer: its place in Push and the event
    esSent,            \* every event sent on the channel, in order
    esCons,            \* the consumer: ranging, in Result(), or done
    esRecv,            \* every event the consumer received, in order
    esGot,             \* what Result() returned to the consumer
    cvMessages,        \* the agent messages given to the default converter
    cvOut,             \* what the converter returned, if it was called
    \* Agent facade and loop: the rest of the context
    systemPrompt,      \* state.SystemPrompt
    tools,             \* state.Tools
    ctxSystemPrompt,   \* currentCtx.SystemPrompt
    ctxTools,          \* currentCtx.Tools
    sfContexts,        \* system prompt and tools of each stream-function call
    nSets,             \* calls of the facade's setters made so far
    \* StreamProxy (proxy.go) and the proxy server
    pxPc,              \* where the goroutine of StreamProxy is
    pxLines,           \* lines of the response body read so far
    pxPartial,         \* partial: stop reason, error text, tool call
    pxDoc,             \* the argument text the server streams
    pxArgText,         \* the fragments of it received so far, concatenated
    \* processProxyEvent (proxy.go) applied to the events of a server
    paContent,         \* partial.Content
    paPc,              \* processProxyEvent: ready, or panicked
    paLast,            \* the last proxy event processed and what it yielded
    paCount,           \* proxy events processed so far
    \* Functions of package ai called on their own
    jsCall,            \* ParseStreamingJSON: the text and what it returned
    ovCall             \* IsContextOverflow: the arguments and the result

facadeVars == << messages, isStreaming, steeringQueue, followUpQueue,
                 steeringMode, followUpMode, streamFnSet, abortCancel,
                 aborted, skipSteering, nSteer, nFollowUp >>
loopVars == << pc, entry, prompts, ctxMessages, newMessages, pendingMessages,
               firstTurn, hasMoreToolCalls, message, toolIndex, results,
               partialMessage, addedPartial, nDeltas >>
streamVars == << pushed, closed, result >>
bookVars == << sfCalls, executed, polls, abortedAt >>
callVars == << modelSet, lastCall, lastError >>
obsVars == << running, runClosed, opc, seen, streamMessage, pendingToolCalls,
             stateError, startMessages, listeners, delivered, waiter,
             snapshot >>
esVars == << esCh, esClosed, esResultCh, esProd, esSent, esCons, esRecv,
            esGot >>
cvVars == << cvMessages, cvOut >>
pxVars == << pxPc, pxLines, pxPartial, pxDoc, pxArgText >>
paVars == << paContent, paPc, paLast, paCount >>
fnVars == << paVars, jsCall, ovCall >>
unitVars == << esVars, cvVars, pxVars, fnVars >>
ctxVars == << systemPrompt, tools, ctxSystemPrompt, ctxTools, sfContexts,
             nSets >>
vars == << facadeVars, loopVars, streamVars, bookVars, callVars, obsVars,
          unitVars, ctxVars >>

\* NewEventStream: empty channels, nothing sent, a producer that has not
\* called Push or End and a consumer about to range over Events().
StreamIdle ==
    /\ esCh = <<>>
    /\ esClosed = FALSE
    /\ esResultCh = <<>>
    /\ esProd = [pc |-> "ready", pushes |-> 0, ends |-> 0]
    /\ esSent = <<>>
    /\ esCons = "ranging"
    /\ esRecv = <<>>
    /\ esGot = <<>>

\* The components that are modelled on their own, not in use.
\* No message was built and the converter was not called.
ConvertIdle ==
    /\ cvMessages = <<>>
    /\ cvOut = [called |-> FALSE, in |-> <<>>, out |-> <<>>]

\* NewAgent: the system prompt and the tools of the initial state; no run
\* has taken a snapshot of them.
ContextIdle ==
    /\ systemPrompt = "prompt 0"
    /\ tools = "tools 0"
    /\ ctxSystemPrompt = ""
    /\ ctxTools = "none"
    /\ sfContexts = <<>>
    /\ nSets = 0

\* StreamProxy was not called.
ProxyIdle ==
    /\ pxPc = "request"
    /\ pxLines = 0
    /\ pxPartial = [stopReason |-> "stop", errorMessage |-> "",
                    toolCall |-> FALSE, arguments |-> {}]
    /\ pxDoc = <<>>
    /\ pxArgText = <<>>

\* StreamProxy built its partial message (Content: []ai.Content{}) and no
\* proxy event was processed.
AssemblerIdle ==
    /\ paContent = <<>>
    /\ paPc = "ready"
    /\ paLast = [type |-> "none", contentIndex |-> 0, yields |-> FALSE]
    /\ paCount = 0

\* The functions were not called.
FunctionsIdle ==
    /\ jsCall = [text |-> <<>>, called |-> FALSE,
                 out |-> [nil |-> FALSE, obj |-> {}]]
    /\ ovCall = [msg |-> [stopReason |-> "stop", errorMessage |-> <<>>,
                          input |-> 0, cacheRead |-> 0],
                 contextWindow |-> 0, called |-> FALSE, out |-> FALSE]

UnitsIdle ==
    /\ StreamIdle
    /\ ConvertIdle
    /\ ContextIdle
    /\ ProxyIdle
    /\ AssemblerIdle
    /\ FunctionsIdle

\* The conversations an agent may hold before the run: one ending in a user
\* message, one ending in an assistant message.
InitialMessages ==
    { << UserMessage("ctx", 1) >>,
      << UserMessage("ctx", 1),
         AssistantMessage(0, StopReasonStop, <<>>, 0, "") >> }

QueueModes == {"one-at-a-time", "all"}

Init ==
    /\ messages \in InitialMessages
    /\ isStreaming = FALSE
    /\ steeringQueue = <<>>
    /\ followUpQueue = <<>>
    /\ steeringMode = "one-at-a-time"
    /\ followUpMode = "one-at-a-time"
    /\ streamFnSet \in BOOLEAN
    /\ abortCancel = FALSE
    /\ aborted = FALSE
    /\ skipSteering = FALSE
    /\ nSteer = 0
    /\ nFollowUp = 0
    /\ pc = "idle"
    /\ entry = "none"
    /\ prompts = <<>>
    /\ ctxMessages = <<>>
    /\ newMessages = <<>>
    /\ pendingMessages = <<>>
    /\ firstTurn = TRUE
    /\ hasMoreToolCalls = TRUE
    /\ message = Null
    /\ toolIndex = 0
    /\ results = <<>>
    /\ partialMessage = Null
    /\ addedPartial = FALSE
    /\ nDeltas = 0
    /\ pushed = <<>>
    /\ closed = FALSE
    /\ result = [set |-> FALSE, value |-> <<>>]
    /\ sfCalls = <<>>
    /\ executed = <<>>
    /\ polls = <<>>
    /\ abortedAt = "never"
    /\ modelSet = TRUE
    /\ lastCall = "none"
    /\ lastError = ""
    /\ running = FALSE
    /\ runClosed = FALSE
    /\ opc = "none"
    /\ seen = 0
    /\ streamMessage = Null
    /\ pendingToolCalls = {}
    /\ stateError = ""
    /\ startMessages = <<>>
    /\ listeners = <<>>
    /\ delivered = <<>>
    /\ waiter = "none"
    /\ snapshot = <<>>
    /\ UnitsIdle

\* ------------------------------------------------------------ agent facade
\* dequeueSteeringMessages / dequeueFollowUpMessages: what a dequeue returns
\* and what it leaves in the queue.
\* A dequeue that hands out the newest message instead of the oldest.
DequeueReturnedNewest(queue, mode) ==
    IF mode = "one-at-a-time"
    THEN IF Len(queue) > 0 THEN << queue[Len(queue)] >> ELSE <<>>
    ELSE queue

DequeueReturned(queue, mode) ==
    IF mode = "one-at-a-time"
    THEN IF Len(queue) > 0 THEN << queue[1] >> ELSE <<>>
    ELSE queue

\* A dequeue that hands the messages out and leaves them in the queue.
DequeueRemainingKeeping(queue, mode) == queue

DequeueRemaining(queue, mode) ==
    IF mode = "one-at-a-time"
    THEN IF Len(queue) > 0 THEN Tail(queue) ELSE queue
    ELSE <<>>

LastRole(ms) == IF ms = <<>> THEN "none" ELSE ms[Len(ms)].role

\* Steer: append to the steering queue.
Steer ==
    /\ nSteer < MaxSteer
    /\ nSteer' = nSteer + 1
    /\ steeringQueue' = Append(steeringQueue, UserMessage("steer", nSteer + 1))
    /\ UNCHANGED << messages, isStreaming, followUpQueue, steeringMode,
                    followUpMode, streamFnSet, abortCancel, aborted,
                    skipSteering, nFollowUp >>
    /\ UNCHANGED << loopVars, streamVars, bookVars >>
    /\ UNCHANGED << callVars, obsVars >>
    /\ UNCHANGED unitVars
    /\ UNCHANGED ctxVars

\* FollowUp: append to the follow-up queue.
FollowUp ==
    /\ nFollowUp < MaxFollowUp
    /\ nFollowUp' = nFollowUp + 1
    /\ followUpQueue' =
           Append(followUpQueue, UserMessage("followUp", nFollowUp + 1))
    /\ UNCHANGED << messages, isStreaming, steeringQueue, steeringMode,
                    followUpMode, streamFnSet, abortCancel, aborted,
                    skipSteering, nSteer >>
    /\ UNCHANGED << loopVars, streamVars, bookVars >>
    /\ UNCHANGED << callVars, obsVars >>
    /\ UNCHANGED unitVars
    /\ UNCHANGED ctxVars

\* What the loop goroutine is doing, for the record Abort leaves.
LoopActivity == IF pc = "recv" THEN "streaming" ELSE "other"

\* A variant of Abort that also empties both queues; what the queues hold
\* after an abort depends on Abort leaving them alone.
AbortClearingQueues ==
    /\ abortCancel
    /\ ~aborted
    /\ aborted' = TRUE
    /\ abortedAt' = LoopActivity
    /\ steeringQueue' = <<>>
    /\ followUpQueue' = <<>>
    /\ UNCHANGED << messages, isStreaming, steeringMode, followUpMode,
                    streamFnSet, abortCancel, skipSteering, nSteer,
                    nFollowUp >>
    /\ UNCHANGED << loopVars, streamVars, sfCalls, executed, polls >>
    /\ UNCHANGED << callVars, obsVars >>
    /\ UNCHANGED unitVars
    /\ UNCHANGED ctxVars

\* Abort: cancel the current run's context, if a run was started.
Abort ==
    /\ abortCancel
    /\ ~aborted
    /\ aborted' = TRUE
    /\ abortedAt' = LoopActivity
    /\ UNCHANGED << messages, isStreaming, steeringQueue, followUpQueue,
                    steeringMode, followUpMode, streamFnSet, abortCancel,
                    skipSteering, nSteer, nFollowUp >>
    /\ UNCHANGED << loopVars, streamVars, sfCalls, executed, polls >>
    /\ UNCHANGED << callVars, obsVars >>
    /\ UNCHANGED unitVars
    /\ UNCHANGED ctxVars

\* The error Agent.runLoop returns, "" for nil: a run in progress, no model,
\* or the error of AgentLoopContinue (messages nil) for an empty context or
\* one that ends with an assistant message.
RunLoopErrorModelUnchecked(msgsNil) ==
    IF isStreaming THEN "agent is already processing a prompt"
    ELSE IF msgsNil /\ messages = <<>>
    THEN "cannot continue: no messages in context"
    ELSE IF msgsNil /\ LastRole(messages) = "assistant"
    THEN "cannot continue from message role: assistant"
    ELSE ""

RunLoopError(msgsNil) ==
    IF isStreaming THEN "agent is already processing a prompt"
    ELSE IF ~modelSet THEN "no model configured"
    ELSE IF msgsNil /\ messages = <<>>
    THEN "cannot continue: no messages in context"
    ELSE IF msgsNil /\ LastRole(messages) = "assistant"
    THEN "cannot continue from message role: assistant"
    ELSE ""

\* Agent.runLoop up to the start of the two goroutines.  A call that fails
\* its checks changes nothing.  Otherwise the idle-wait channel and the
\* cancellation handle are made and the context snapshot is taken; when
\* AgentLoopContinue refuses the context the channel is closed again, and
\* otherwise the loop goroutine (AgentLoop with msgs, AgentLoopContinue with
\* nil) and the observer goroutine start.  The model follows the first run
\* of an agent.
StartRun(msgs, msgsNil, skip) ==
    /\ lastError' = RunLoopError(msgsNil)
    /\ IF isStreaming \/ ~modelSet
       THEN /\ UNCHANGED << isStreaming, abortCancel, aborted, skipSteering >>
            /\ UNCHANGED << loopVars, obsVars, ctxSystemPrompt, ctxTools >>
       ELSE IF RunLoopError(msgsNil) # ""
       THEN /\ isStreaming' = FALSE
            /\ abortCancel' = TRUE
            /\ aborted' = FALSE
            /\ running' = TRUE
            /\ runClosed' = TRUE
            /\ streamMessage' = Null
            /\ stateError' = ""
            /\ UNCHANGED << skipSteering, loopVars, opc, seen,
                            pendingToolCalls, startMessages, listeners,
                            delivered, waiter, snapshot, ctxSystemPrompt,
                            ctxTools >>
       ELSE /\ pc = "idle"
            /\ isStreaming' = TRUE
            /\ abortCancel' = TRUE
            /\ aborted' = FALSE
            /\ running' = TRUE
            /\ runClosed' = FALSE
            /\ streamMessage' = Null
            /\ stateError' = ""
            /\ skipSteering' = skip
            /\ pc' = "spawned"
            /\ entry' = IF msgsNil THEN "continue" ELSE "loop"
            /\ prompts' = msgs
            /\ ctxMessages' = messages
            /\ ctxSystemPrompt' = systemPrompt
            /\ ctxTools' = tools
            /\ opc' = "recv"
            /\ seen' = 0
            /\ startMessages' = messages
            /\ UNCHANGED << newMessages, pendingMessages, firstTurn,
                            hasMoreToolCalls, message, toolIndex, results,
                            partialMessage, addedPartial, nDeltas >>
            /\ UNCHANGED << pendingToolCalls, listeners, delivered, waiter,
                            snapshot >>

PromptBatches == { << UserMessage("prompt", 1) >> }

\* Prompt / PromptMessages with a batch of messages, on an agent that is
\* not streaming and has a model.
Prompt ==
    /\ ~isStreaming
    /\ modelSet
    /\ lastCall' = "prompt"
    /\ \E msgs \in PromptBatches : StartRun(msgs, FALSE, FALSE)
    /\ UNCHANGED << messages, steeringQueue, followUpQueue, steeringMode,
                    followUpMode, streamFnSet, nSteer, nFollowUp >>
    /\ UNCHANGED << streamVars, bookVars, modelSet >>
    /\ UNCHANGED unitVars
    /\ UNCHANGED << systemPrompt, tools, sfContexts, nSets >>

\* Prompt / PromptMessages on an agent that is streaming or has no model.
PromptRejected ==
    /\ isStreaming \/ ~modelSet
    /\ lastCall' = "prompt"
    /\ \E msgs \in PromptBatches : StartRun(msgs, FALSE, FALSE)
    /\ UNCHANGED << messages, steeringQueue, followUpQueue, steeringMode,
                    followUpMode, streamFnSet, nSteer, nFollowUp >>
    /\ UNCHANGED << streamVars, bookVars, modelSet >>
    /\ UNCHANGED unitVars
    /\ UNCHANGED << systemPrompt, tools, sfContexts, nSets >>

\* PromptMessages(nil): Agent.runLoop takes the continuation entry point.
PromptMessagesNil ==
    /\ ~isStreaming
    /\ modelSet
    /\ lastCall' = "promptMessages"
    /\ StartRun(<<>>, TRUE, FALSE)
    /\ UNCHANGED << messages, steeringQueue, followUpQueue, steeringMode,
                    followUpMode, streamFnSet, nSteer, nFollowUp >>
    /\ UNCHANGED << streamVars, bookVars, modelSet >>
    /\ UNCHANGED unitVars
    /\ UNCHANGED << systemPrompt, tools, sfContexts, nSets >>

\* The error of Continue when neither queue gives a message.
ContinueFromAssistantError == "cannot continue from message role: assistant"

\* Continue on an agent that is not streaming and has messages.
Continue ==
    /\ ~isStreaming
    /\ messages # <<>>
    /\ lastCall' = "continue"
    /\ LET steering == DequeueReturned(steeringQueue, steeringMode)
           followUp == DequeueReturned(followUpQueue, followUpMode)
       IN  IF LastRole(messages) = "assistant"
           THEN IF steering # <<>>
                THEN /\ steeringQueue' =
                            DequeueRemaining(steeringQueue, steeringMode)
                     /\ UNCHANGED followUpQueue
                     /\ StartRun(steering, FALSE, TRUE)
                ELSE /\ steeringQueue' =
                            DequeueRemaining(steeringQueue, steeringMode)
                     /\ followUpQueue' =
                            DequeueRemaining(followUpQueue, followUpMode)
                     /\ IF followUp # <<>>
                        THEN StartRun(followUp, FALSE, FALSE)
                        ELSE /\ lastError' = ContinueFromAssistantError
                             /\ UNCHANGED << isStreaming, abortCancel,
                                             aborted, skipSteering >>
                             /\ UNCHANGED << loopVars, obsVars,
                                             ctxSystemPrompt, ctxTools >>
           ELSE /\ UNCHANGED << steeringQueue, followUpQueue >>
                /\ StartRun(<<>>, TRUE, FALSE)
    /\ UNCHANGED << messages, steeringMode, followUpMode, streamFnSet,
                    nSteer, nFollowUp >>
    /\ UNCHANGED << streamVars, bookVars, modelSet >>
    /\ UNCHANGED unitVars
    /\ UNCHANGED << systemPrompt, tools, sfContexts, nSets >>

\* Continue on an agent that is streaming or has no messages.
ContinueRejected ==
    /\ isStreaming \/ messages = <<>>
    /\ lastCall' = "continue"
    /\ lastError' = IF isStreaming THEN "agent is already processing"
                    ELSE "no messages to continue from"
    /\ UNCHANGED << facadeVars, loopVars, streamVars, bookVars, modelSet,
                    obsVars >>
    /\ UNCHANGED unitVars
    /\ UNCHANGED ctxVars

\* ------------------------------------------------------- agent event stream
\* EventStream.Push on the agent event stream: a terminal event (agent_end)
\* resolves the result, is delivered and closes the channel.
Push(stream, event) ==
    [pushed |-> Append(stream.pushed, event),
     closed |-> stream.closed \/ event.type = AgentEventEnd,
     result |-> IF event.type = AgentEventEnd
                THEN [set |-> TRUE, value |-> event.data]
                ELSE stream.result]

RECURSIVE PushAll(_, _)
PushAll(stream, events) ==
    IF events = <<>> THEN stream
    ELSE PushAll(Push(stream, Head(events)), Tail(events))

\* EventStream.End: resolve the result unless one is there, close once.
End(stream, value) ==
    [pushed |-> stream.pushed,
     closed |-> TRUE,
     result |-> IF stream.result.set THEN stream.result
                ELSE [set |-> TRUE, value |-> value]]

Stream == [pushed |-> pushed, closed |-> closed, result |-> result]

SetStream(stream) ==
    /\ pushed' = stream.pushed
    /\ closed' = stream.closed
    /\ result' = stream.result

\* The loop pushes `events`; a push on a closed channel panics.
Emit(events) ==
    /\ ~closed
    /\ SetStream(PushAll(Stream, events))

\* The loop pushes `events`, the last of them agent_end, calls End with
\* the new-messages list and returns.
EmitAndEnd(events, msgs) ==
    /\ ~closed
    /\ SetStream(End(PushAll(Stream, events), msgs))

\* ------------------------------------------------------------ the loop
\* GetSteeringMessages as configured by Agent.runLoop: the first call of a
\* run started by Continue with steering messages returns nothing.
SteeringReturned ==
    IF skipSteering THEN <<>>
    ELSE DequeueReturned(steeringQueue, steeringMode)

GetSteeringMessages(site) ==
    /\ skipSteering' = FALSE
    /\ steeringQueue' = IF skipSteering THEN steeringQueue
                        ELSE DequeueRemaining(steeringQueue, steeringMode)
    /\ polls' = Append(polls, [queue |-> "steering", site |-> site,
                               returned |-> SteeringReturned,
                               at |-> Len(pushed)])

\* GetFollowUpMessages as configured by Agent.runLoop.
FollowUpReturned == DequeueReturned(followUpQueue, followUpMode)

GetFollowUpMessages(site) ==
    /\ followUpQueue' = DequeueRemaining(followUpQueue, followUpMode)
    /\ polls' = Append(polls, [queue |-> "followUp", site |-> site,
                               returned |-> FollowUpReturned,
                               at |-> Len(pushed)])

\* A variant of AgentLoop whose new-messages list starts empty.
AgentLoopForgettingPrompts ==
    /\ pc = "spawned"
    /\ entry = "loop"
    /\ newMessages' = <<>>
    /\ ctxMessages' = ctxMessages \o prompts
    /\ Emit(<< AgentEvent(AgentEventStart, Null, <<>>),
               AgentEvent(TurnEventStart, Null, <<>>) >>
            \o MessagePairs(prompts))
    /\ pc' = "pollStart"
    /\ UNCHANGED << entry, prompts, pendingMessages, firstTurn,
                    hasMoreToolCalls, message, toolIndex, results,
                    partialMessage, addedPartial, nDeltas >>
    /\ UNCHANGED << facadeVars, bookVars >>
    /\ UNCHANGED << callVars, obsVars >>
    /\ UNCHANGED unitVars
    /\ UNCHANGED ctxVars

\* The goroutine of AgentLoop up to its call of runLoop.
AgentLoop ==
    /\ pc = "spawned"
    /\ entry = "loop"
    /\ newMessages' = prompts
    /\ ctxMessages' = ctxMessages \o prompts
    /\ Emit(<< AgentEvent(AgentEventStart, Null, <<>>),
               AgentEvent(TurnEventStart, Null, <<>>) >>
            \o MessagePairs(prompts))
    /\ pc' = "pollStart"
    /\ UNCHANGED << entry, prompts, pendingMessages, firstTurn,
                    hasMoreToolCalls, message, toolIndex, results,
                    partialMessage, addedPartial, nDeltas >>
    /\ UNCHANGED << facadeVars, bookVars >>
    /\ UNCHANGED << callVars, obsVars >>
    /\ UNCHANGED unitVars
    /\ UNCHANGED ctxVars

\* AgentLoopContinue treating the context like the prompts of AgentLoop.
AgentLoopContinueReplayingContext ==
    /\ pc = "spawned"
    /\ entry = "continue"
    /\ newMessages' = ctxMessages
    /\ Emit(<< AgentEvent(AgentEventStart, Null, <<>>),
               AgentEvent(TurnEventStart, Null, <<>>) >>
            \o MessagePairs(ctxMessages))
    /\ pc' = "pollStart"
    /\ UNCHANGED << entry, prompts, ctxMessages, pendingMessages, firstTurn,
                    hasMoreToolCalls, message, toolIndex, results,
                    partialMessage, addedPartial, nDeltas >>
    /\ UNCHANGED << facadeVars, bookVars >>
    /\ UNCHANGED << callVars, obsVars >>
    /\ UNCHANGED unitVars
    /\ UNCHANGED ctxVars

\* The goroutine of AgentLoopContinue up to its call of runLoop.
AgentLoopContinue ==
    /\ pc = "spawned"
    /\ entry = "continue"
    /\ newMessages' = <<>>
    /\ Emit(<< AgentEvent(AgentEventStart, Null, <<>>),
               AgentEvent(TurnEventStart, Null, <<>>) >>)
    /\ pc' = "pollStart"
    /\ UNCHANGED << entry, prompts, ctxMessages, pendingMessages, firstTurn,
                    hasMoreToolCalls, message, toolIndex, results,
                    partialMessage, addedPartial, nDeltas >>
    /\ UNCHANGED << facadeVars, bookVars >>
    /\ UNCHANGED << callVars, obsVars >>
    /\ UNCHANGED unitVars
    /\ UNCHANGED ctxVars

\* runLoop: the steering poll at the start of the run.
PollSteeringAtStart ==
    /\ pc = "pollStart"
    /\ pendingMessages' = SteeringReturned
    /\ GetSteeringMessages("start")
    /\ pc' = "inner"
    /\ UNCHANGED << entry, prompts, ctxMessages, newMessages, firstTurn,
                    hasMoreToolCalls, message, toolIndex, results,
                    partialMessage, addedPartial, nDeltas >>
    /\ UNCHANGED << messages, isStreaming, followUpQueue, steeringMode,
                    followUpMode, streamFnSet, abortCancel, aborted,
                    nSteer, nFollowUp >>
    /\ UNCHANGED << streamVars, sfCalls, executed, abortedAt >>
    /\ UNCHANGED << callVars, obsVars >>
    /\ UNCHANGED unitVars
    /\ UNCHANGED ctxVars

\* A variant of TurnStartEvents that pushes turn_start on the first turn
\* too; the alternation of turn events depends on the firstTurn flag.
TurnStartEventsAlways(first) ==
    << AgentEvent(TurnEventStart, Null, <<>>) >>

\* The turn_start of an inner-loop iteration: none on the first turn, whose
\* turn_start the entry point pushed.
TurnStartEvents(first) ==
    IF first THEN <<>> ELSE << AgentEvent(TurnEventStart, Null, <<>>) >>

\* runLoop: the head of an inner-loop iteration, turn_start and the pending
\* messages.
TurnBegin ==
    /\ pc = "inner"
    /\ hasMoreToolCalls \/ pendingMessages # <<>>
    /\ Emit(TurnStartEvents(firstTurn) \o MessagePairs(pendingMessages))
    /\ firstTurn' = FALSE
    /\ ctxMessages' = ctxMessages \o pendingMessages
    /\ newMessages' = newMessages \o pendingMessages
    /\ pendingMessages' = <<>>
    /\ pc' = "stream"
    /\ UNCHANGED << entry, prompts, hasMoreToolCalls, message, toolIndex,
                    results, partialMessage, addedPartial, nDeltas >>
    /\ UNCHANGED << facadeVars, bookVars >>
    /\ UNCHANGED << callVars, obsVars >>
    /\ UNCHANGED unitVars
    /\ UNCHANGED ctxVars

\* A variant of HasFollowUp that never sees follow-up messages; the further
\* turn after a follow-up depends on the test HasFollowUp makes.
HasFollowUpNever(followUp) == FALSE

\* runLoop: whether the follow-up provider's result starts a further pass of
\* the outer loop.
HasFollowUp(followUp) == Len(followUp) > 0

\* runLoop: the inner loop has exited; the follow-up poll, then either a
\* further pass of the outer loop or agent_end and the end of the run.
PollFollowUp ==
    /\ pc = "inner"
    /\ ~(hasMoreToolCalls \/ pendingMessages # <<>>)
    /\ GetFollowUpMessages("exit")
    /\ IF HasFollowUp(FollowUpReturned)
       THEN /\ pendingMessages' = FollowUpReturned
            /\ hasMoreToolCalls' = TRUE
            /\ pc' = "inner"
            /\ UNCHANGED streamVars
       ELSE /\ EmitAndEnd(<< AgentEvent(AgentEventEnd, Null, newMessages) >>,
                          newMessages)
            /\ pc' = "done"
            /\ UNCHANGED << pendingMessages, hasMoreToolCalls >>
    /\ UNCHANGED << entry, prompts, ctxMessages, newMessages, firstTurn,
                    message, toolIndex, results, partialMessage,
                    addedPartial, nDeltas >>
    /\ UNCHANGED << messages, isStreaming, steeringQueue, steeringMode,
                    followUpMode, streamFnSet, abortCancel, aborted,
                    skipSteering, nSteer, nFollowUp >>
    /\ UNCHANGED << sfCalls, executed, abortedAt >>
    /\ UNCHANGED << callVars, obsVars >>
    /\ UNCHANGED unitVars
    /\ UNCHANGED ctxVars

\* The ai.Message embedded in an AgentMessage: the message without its
\* Custom field.
MessageOf(m) ==
    IF "custom" \in DOMAIN m
    THEN [f \in DOMAIN m \ {"custom"} |-> m[f]]
    ELSE m

\* DefaultConvertToLLM: m.Message of the messages whose role is user,
\* assistant or toolResult, in order.
DefaultConvertToLLM(ms) ==
    LET kept == SelectSeq(ms, LAMBDA m :
                    m.role \in {"user", "assistant", "toolResult"})
    IN  [i \in 1..Len(kept) |-> MessageOf(kept[i])]

\* A variant of makeErrorAssistantMessage that drops the failure text.
MakeErrorAssistantMessageDroppingText(turn, errMsg) ==
    AssistantMessage(turn, StopReasonError, <<>>, 0, "")

\* makeErrorAssistantMessage.
MakeErrorAssistantMessage(turn, errMsg) ==
    AssistantMessage(turn, StopReasonError, <<>>, 0, errMsg)

\* A variant of ErrorExitEvents that pushes agent_end before turn_end; the
\* event bracketing of a run depends on the order ErrorExitEvents gives.
ErrorExitEventsEndFirst(am, msgs) ==
    << AgentEvent(AgentEventEnd, Null, msgs),
       AgentEvent(TurnEventEnd, am, <<>>) >>

\* The two events of an exit that ends the run inside a turn.
ErrorExitEvents(am, msgs) ==
    << AgentEvent(TurnEventEnd, am, <<>>),
       AgentEvent(AgentEventEnd, Null, msgs) >>

\* What the hooks of streamAssistantResponse may do.
HookOutcomes == {"ok", "transformContext", "convertToLLM"}

\* The error streamAssistantResponse returns, "" when it invokes the
\* stream function.
StreamError(outcome) ==
    IF outcome # "ok" THEN outcome
    ELSE IF ~streamFnSet THEN "no stream function provided"
    ELSE ""

\* A variant of LLMContext that reads the facade's state.
LLMContextOfFacade == [systemPrompt |-> systemPrompt, tools |-> tools]

\* streamAssistantResponse: the system prompt and the tools of llmCtx.
LLMContext == [systemPrompt |-> ctxSystemPrompt, tools |-> ctxTools]

\* streamAssistantResponse up to the call of the stream function, and
\* runLoop's handling of its failure.
InvokeStream ==
    /\ pc = "stream"
    /\ \E outcome \in HookOutcomes :
          IF StreamError(outcome) # ""
          THEN LET am == MakeErrorAssistantMessage(Len(sfCalls) + 1,
                                                   StreamError(outcome))
                   msgs == Append(newMessages, am)
               IN  /\ newMessages' = msgs
                   /\ EmitAndEnd(ErrorExitEvents(am, msgs), msgs)
                   /\ pc' = "done"
                   /\ UNCHANGED << sfCalls, sfContexts, partialMessage,
                                   addedPartial, nDeltas >>
          ELSE /\ Len(sfCalls) < MaxTurns
               /\ sfCalls' = Append(sfCalls, DefaultConvertToLLM(ctxMessages))
               /\ sfContexts' = Append(sfContexts, LLMContext)
               /\ partialMessage' = Null
               /\ addedPartial' = FALSE
               /\ nDeltas' = 0
               /\ pc' = "recv"
               /\ UNCHANGED << newMessages, streamVars >>
    /\ UNCHANGED << entry, prompts, ctxMessages, pendingMessages, firstTurn,
                    hasMoreToolCalls, message, toolIndex, results >>
    /\ UNCHANGED << facadeVars, executed, polls, abortedAt >>
    /\ UNCHANGED << callVars, obsVars >>
    /\ UNCHANGED unitVars
    /\ UNCHANGED << systemPrompt, tools, ctxSystemPrompt, ctxTools, nSets >>

Turn == Len(sfCalls)

\* The tool calls the assistant messages of the run hold so far, and the
\* number the bound still allows.
RECURSIVE ToolCallCount(_)
ToolCallCount(ms) ==
    IF ms = <<>> THEN 0
    ELSE (IF Head(ms).role = "assistant" THEN Len(Head(ms).calls) ELSE 0)
         + ToolCallCount(Tail(ms))

ToolCallRoom == MaxToolCalls - ToolCallCount(newMessages)

ReplaceLast(ms, m) == [ms EXCEPT ![Len(ms)] = m]

\* streamAssistantResponse: the start event.  A provider stream delivers at
\* most one.
RecvStart ==
    /\ pc = "recv"
    /\ ~addedPartial
    /\ LET partial == AssistantMessage(Turn, StopReasonStop, <<>>, 0, "")
       IN  /\ partialMessage' = partial
           /\ ctxMessages' = Append(ctxMessages, partial)
           /\ Emit(<< AgentEvent(MessageEventStart, partial, <<>>) >>)
    /\ addedPartial' = TRUE
    /\ UNCHANGED << pc, entry, prompts, newMessages, pendingMessages,
                    firstTurn, hasMoreToolCalls, message, toolIndex, results,
                    nDeltas >>
    /\ UNCHANGED << facadeVars, bookVars >>
    /\ UNCHANGED << callVars, obsVars >>
    /\ UNCHANGED unitVars
    /\ UNCHANGED ctxVars

\* The events a text/thinking/toolcall event makes the loop push: none
\* before the start event.
UpdateEvents(partial, updated) ==
    IF partial # Null
    THEN << AgentEvent(MessageEventUpdate, updated, <<>>) >>
    ELSE <<>>

\* streamAssistantResponse: a text_*, thinking_* or toolcall_* event.
RecvDelta ==
    /\ pc = "recv"
    /\ nDeltas < MaxDeltas
    /\ nDeltas' = IF partialMessage # Null THEN nDeltas + 1 ELSE nDeltas
    /\ LET updated == IF partialMessage # Null
                      THEN [partialMessage EXCEPT !.deltas = @ + 1]
                      ELSE Null
       IN  /\ partialMessage' = updated
           /\ ctxMessages' = IF partialMessage # Null /\ addedPartial
                             THEN ReplaceLast(ctxMessages, updated)
                             ELSE ctxMessages
           /\ Emit(UpdateEvents(partialMessage, updated))
    /\ UNCHANGED << pc, entry, prompts, newMessages, pendingMessages,
                    firstTurn, hasMoreToolCalls, message, toolIndex, results,
                    addedPartial >>
    /\ UNCHANGED << facadeVars, bookVars >>
    /\ UNCHANGED << callVars, obsVars >>
    /\ UNCHANGED unitVars
    /\ UNCHANGED ctxVars

\* The final messages a provider stream may resolve to with a done or error
\* event: done carries stop or toolUse, error carries error or aborted;
\* either may hold tool calls.
TerminalMessages(turn, deltas, room) ==
    { AssistantMessage(turn,
                       IF calls = <<>> THEN StopReasonStop
                       ELSE StopReasonToolUse,
                       calls, deltas, "") :
        calls \in ToolCallBatches(turn, room) }
    \cup
    { AssistantMessage(turn, stop, calls, deltas, "provider error") :
        stop \in {StopReasonError, StopReasonAborted},
        calls \in ValidCallBatches(turn, room) }

\* The results of a provider stream that is closed by End(partial) with no
\* done or error event (StreamProxy at the end of the SSE body): the partial
\* message, whose stop reason is still stop.
ClosedMessages(turn, deltas, room) ==
    { AssistantMessage(turn, StopReasonStop, calls, deltas, "") :
        calls \in ValidCallBatches(turn, room) }

\* A variant of IsTerminalStop that lets an aborted response continue the
\* run; the exit on an aborted response depends on IsTerminalStop.
IsTerminalStopErrorOnly(stop) == stop = StopReasonError

\* runLoop: stop reasons that end the run.
IsTerminalStop(stop) == stop \in {StopReasonError, StopReasonAborted}

\* runLoop: the tool calls of the assistant message, in content order.
ToolCallsOf(m) == m.calls

TurnEndEvent(am, toolResults) == AgentEvent(TurnEventEnd, am, toolResults)

\* A variant of AfterTurnEnd that polls the steering provider after every
\* turn_end; the hand-over of interrupting steering messages depends on
\* AfterTurnEnd.
AfterTurnEndAlwaysPoll(steering) == "pollTurn"

\* Where runLoop goes after turn_end: with steering messages from the tool
\* batch they become the pending messages and the provider is not polled.
AfterTurnEnd(steering) == IF steering # <<>> THEN "inner" ELSE "pollTurn"

\* runLoop from the return of streamAssistantResponse with `final` to the
\* next call it makes: the message joins the new-messages log; an error or
\* aborted message ends the run, tool calls go to executeToolCalls, and
\* otherwise the turn ends.  `events` are the events
\* streamAssistantResponse pushes before it returns.
AfterResponse(final, ctxNow, events) ==
    LET msgs == Append(newMessages, final)
    IN  /\ message' = final
        /\ newMessages' = msgs
        /\ ctxMessages' = ctxNow
        /\ IF IsTerminalStop(final.stop)
           THEN /\ EmitAndEnd(events \o ErrorExitEvents(final, msgs), msgs)
                /\ pc' = "done"
                /\ UNCHANGED << hasMoreToolCalls, toolIndex, results >>
           ELSE IF ToolCallsOf(final) # <<>>
           THEN /\ Emit(events)
                /\ hasMoreToolCalls' = TRUE
                /\ toolIndex' = 1
                /\ results' = <<>>
                /\ pc' = "tools"
           ELSE /\ Emit(events \o << TurnEndEvent(final, <<>>) >>)
                /\ hasMoreToolCalls' = FALSE
                /\ pc' = AfterTurnEnd(<<>>)
                /\ UNCHANGED << toolIndex, results >>

\* The events streamAssistantResponse pushes on done/error.
TerminalEvents(added, final) ==
    (IF added THEN <<>> ELSE << AgentEvent(MessageEventStart, final, <<>>) >>)
    \o << AgentEvent(MessageEventEnd, final, <<>>) >>

\* streamAssistantResponse: the done or error event.
RecvTerminal ==
    /\ pc = "recv"
    /\ \E final \in TerminalMessages(Turn, nDeltas, ToolCallRoom) :
          AfterResponse(final,
                        IF addedPartial THEN ReplaceLast(ctxMessages, final)
                        ELSE Append(ctxMessages, final),
                        TerminalEvents(addedPartial, final))
    /\ UNCHANGED << entry, prompts, pendingMessages, firstTurn,
                    partialMessage, addedPartial, nDeltas >>
    /\ UNCHANGED << facadeVars, bookVars >>
    /\ UNCHANGED << callVars, obsVars >>
    /\ UNCHANGED unitVars
    /\ UNCHANGED ctxVars

\* The events streamAssistantResponse pushes when the provider stream ends
\* with no done or error event.
ClosedEvents(added, final) == <<>>

\* streamAssistantResponse: the provider stream is closed with no done or
\* error event; the message is Result().  The partial the context holds is
\* the object the provider resolved the stream with.
RecvClosed ==
    /\ pc = "recv"
    /\ \E final \in ClosedMessages(Turn, nDeltas, ToolCallRoom) :
          AfterResponse(final,
                        IF addedPartial THEN ReplaceLast(ctxMessages, final)
                        ELSE ctxMessages,
                        ClosedEvents(addedPartial, final))
    /\ UNCHANGED << entry, prompts, pendingMessages, firstTurn,
                    partialMessage, addedPartial, nDeltas >>
    /\ UNCHANGED << facadeVars, bookVars >>
    /\ UNCHANGED << callVars, obsVars >>
    /\ UNCHANGED unitVars
    /\ UNCHANGED ctxVars

\* ---------------------------------------------------------- tool execution
\* ValidateToolArguments: the required names that are no key of the
\* arguments; the list is read only when `reqRaw.([]any)` succeeds.
MissingRequired(tc) ==
    IF RequiredList(tc.name).type = "[]any"
    THEN Required(tc.name) \ tc.args
    ELSE {}

ToolContent(text, detail) == [text |-> text, detail |-> detail]

SkippedContent == ToolContent(SkippedText, {})

\* executeToolCalls: whether Execute is invoked for tool call tc, and the
\* result of the call.
ToolInvoked(tc) == tc.name \in ToolNames /\ MissingRequired(tc) = {}

ToolResultContent(tc) ==
    IF tc.name \notin ToolNames THEN ToolContent("Tool not found", {tc.name})
    ELSE IF MissingRequired(tc) # {}
    THEN ToolContent("missing required", MissingRequired(tc))
    ELSE IF ExecuteFails(tc.name) THEN ToolContent("execute failed", {})
    ELSE ToolContent("result", {})

\* A variant that does not flag the error Execute returns.
ToolResultIsErrorIgnoringExecute(tc) == ~ToolInvoked(tc)

ToolResultIsError(tc) == ~ToolInvoked(tc) \/ ExecuteFails(tc.name)

\* executeToolCalls: the events of one tool call; an Execute that is
\* invoked reports one progress update through onUpdate.
ToolCallEvents(tc, content, isError) ==
    << ToolEvent(ToolExecutionEventStart, tc, ToolContent("", {}), FALSE) >>
    \o (IF ToolInvoked(tc)
        THEN << ToolEvent(ToolExecutionEventUpdate, tc,
                          ToolContent("partial", {}), FALSE) >>
        ELSE <<>>)
    \o << ToolEvent(ToolExecutionEventEnd, tc, content, isError) >>
    \o MessagePair(ToolResultMessage(tc, content, isError))

\* executeToolCalls: one iteration up to the steering check.
ExecuteToolCall ==
    /\ pc = "tools"
    /\ LET tc == ToolCallsOf(message)[toolIndex]
           content == ToolResultContent(tc)
           isError == ToolResultIsError(tc)
       IN  /\ Emit(ToolCallEvents(tc, content, isError))
           /\ results' = Append(results,
                                ToolResultMessage(tc, content, isError))
           /\ executed' = IF ToolInvoked(tc) THEN Append(executed, tc.id)
                          ELSE executed
    /\ pc' = "toolSteer"
    /\ UNCHANGED << entry, prompts, ctxMessages, newMessages,
                    pendingMessages, firstTurn, hasMoreToolCalls, message,
                    toolIndex, partialMessage, addedPartial, nDeltas >>
    /\ UNCHANGED << facadeVars, sfCalls, polls, abortedAt >>
    /\ UNCHANGED << callVars, obsVars >>
    /\ UNCHANGED unitVars
    /\ UNCHANGED ctxVars

\* skipToolCall: the result and the events of a skipped tool call.
SkipToolCallResult(tc) == ToolResultMessage(tc, SkippedContent, TRUE)

SkipToolCallEvents(tc) ==
    << ToolEvent(ToolExecutionEventStart, tc, ToolContent("", {}), FALSE),
       ToolEvent(ToolExecutionEventEnd, tc, SkippedContent, TRUE) >>
    \o MessagePair(SkipToolCallResult(tc))

\* A variant of SkippedCalls that skips from call i on; the number of
\* results of an interrupted batch depends on SkippedCalls.
SkippedCallsFromCurrent(calls, i) == SubSeq(calls, i, Len(calls))

\* executeToolCalls: the calls skipped when steering arrives after call i.
SkippedCalls(calls, i) == SubSeq(calls, i + 1, Len(calls))

RECURSIVE SkipResults(_)
SkipResults(calls) ==
    IF calls = <<>> THEN <<>>
    ELSE << SkipToolCallResult(Head(calls)) >> \o SkipResults(Tail(calls))

RECURSIVE SkipEvents(_)
SkipEvents(calls) ==
    IF calls = <<>> THEN <<>>
    ELSE SkipToolCallEvents(Head(calls)) \o SkipEvents(Tail(calls))

\* runLoop after executeToolCalls returned (toolResults, steering): the
\* results join the context and the new-messages log, turn_end is pushed
\* and the steering messages, if any, become the pending messages.
\* `events` are the events of the skipped calls.
\* runLoop: the messages made from &r in `for _, r := range toolResults`.
\* Where each iteration has its own r (Go 1.22 and later) they are the
\* results; where the loop has one r (earlier versions) every message
\* points at it, and it holds the last result when the loop is over.  The
\* sources do not tell the version they are built with.
ToolResultMessagesOf(toolResults) ==
    { toolResults,
      [i \in 1..Len(toolResults) |-> toolResults[Len(toolResults)]] }

FinishBatch(toolResults, steering, events) ==
    /\ results' = toolResults
    /\ \E appended \in ToolResultMessagesOf(toolResults) :
          /\ ctxMessages' = ctxMessages \o appended
          /\ newMessages' = newMessages \o appended
    /\ Emit(events \o << TurnEndEvent(message, toolResults) >>)
    /\ pendingMessages' = IF steering # <<>> THEN steering
                          ELSE pendingMessages
    /\ pc' = AfterTurnEnd(steering)
    /\ UNCHANGED toolIndex

\* executeToolCalls: the steering check after a tool call, the skipping of
\* the remaining calls, and the return to runLoop after the last call.
CheckSteeringAfterTool ==
    /\ pc = "toolSteer"
    /\ GetSteeringMessages("tool")
    /\ LET calls == ToolCallsOf(message)
           skipped == SkippedCalls(calls, toolIndex)
       IN  IF SteeringReturned # <<>>
           THEN FinishBatch(results \o SkipResults(skipped),
                            SteeringReturned, SkipEvents(skipped))
           ELSE IF toolIndex < Len(calls)
           THEN /\ toolIndex' = toolIndex + 1
                /\ pc' = "tools"
                /\ UNCHANGED << results, ctxMessages, newMessages,
                                pendingMessages, streamVars >>
           ELSE FinishBatch(results, <<>>, <<>>)
    /\ UNCHANGED << entry, prompts, firstTurn, hasMoreToolCalls, message,
                    partialMessage, addedPartial, nDeltas >>
    /\ UNCHANGED << messages, isStreaming, followUpQueue, steeringMode,
                    followUpMode, streamFnSet, abortCancel, aborted,
                    nSteer, nFollowUp >>
    /\ UNCHANGED << sfCalls, executed, abortedAt >>
    /\ UNCHANGED << callVars, obsVars >>
    /\ UNCHANGED unitVars
    /\ UNCHANGED ctxVars

\* A variant of the poll after a turn that dequeues and drops what the
\* provider returned.
PollSteeringAfterTurnDropping ==
    /\ pc = "pollTurn"
    /\ pendingMessages' = <<>>
    /\ GetSteeringMessages("turn")
    /\ pc' = "inner"
    /\ UNCHANGED << entry, prompts, ctxMessages, newMessages, firstTurn,
                    hasMoreToolCalls, message, toolIndex, results,
                    partialMessage, addedPartial, nDeltas >>
    /\ UNCHANGED << messages, isStreaming, followUpQueue, steeringMode,
                    followUpMode, streamFnSet, abortCancel, aborted,
                    nSteer, nFollowUp >>
    /\ UNCHANGED << streamVars, sfCalls, executed, abortedAt >>
    /\ UNCHANGED << callVars, obsVars >>
    /\ UNCHANGED unitVars
    /\ UNCHANGED ctxVars

\* runLoop: the steering poll after a turn that no steering interrupted.
PollSteeringAfterTurn ==
    /\ pc = "pollTurn"
    /\ pendingMessages' = SteeringReturned
    /\ GetSteeringMessages("turn")
    /\ pc' = "inner"
    /\ UNCHANGED << entry, prompts, ctxMessages, newMessages, firstTurn,
                    hasMoreToolCalls, message, toolIndex, results,
                    partialMessage, addedPartial, nDeltas >>
    /\ UNCHANGED << messages, isStreaming, followUpQueue, steeringMode,
                    followUpMode, streamFnSet, abortCancel, aborted,
                    nSteer, nFollowUp >>
    /\ UNCHANGED << streamVars, sfCalls, executed, abortedAt >>
    /\ UNCHANGED << callVars, obsVars >>
    /\ UNCHANGED unitVars
    /\ UNCHANGED ctxVars

\* ------------------------------------------------------------ specification
\* The run-related state of an agent on which no run was started.
InitIdle ==
    /\ isStreaming = FALSE
    /\ abortCancel = FALSE
    /\ aborted = FALSE
    /\ skipSteering = FALSE
    /\ pc = "idle"
    /\ entry = "none"
    /\ prompts = <<>>
    /\ ctxMessages = <<>>
    /\ newMessages = <<>>
    /\ pendingMessages = <<>>
    /\ firstTurn = TRUE
    /\ hasMoreToolCalls = TRUE
    /\ message = Null
    /\ toolIndex = 0
    /\ results = <<>>
    /\ partialMessage = Null
    /\ addedPartial = FALSE
    /\ nDeltas = 0
    /\ pushed = <<>>
    /\ closed = FALSE
    /\ result = [set |-> FALSE, value |-> <<>>]
    /\ sfCalls = <<>>
    /\ executed = <<>>
    /\ polls = <<>>
    /\ abortedAt = "never"
    /\ lastCall = "none"
    /\ lastError = ""
    /\ running = FALSE
    /\ runClosed = FALSE
    /\ opc = "none"
    /\ seen = 0
    /\ streamMessage = Null
    /\ pendingToolCalls = {}
    /\ stateError = ""
    /\ startMessages = <<>>
    /\ delivered = <<>>
    /\ waiter = "none"
    /\ snapshot = <<>>

\* The steps of the loop goroutine.
LoopStep ==
    \/ AgentLoop
    \/ AgentLoopContinue
    \/ PollSteeringAtStart
    \/ TurnBegin
    \/ PollFollowUp
    \/ InvokeStream
    \/ RecvStart
    \/ RecvDelta
    \/ RecvTerminal
    \/ RecvClosed
    \/ ExecuteToolCall
    \/ CheckSteeringAfterTool
    \/ PollSteeringAfterTurn

\* SpecCalls: the entry points of the facade, called on agents with or
\* without a model, with any of the conversations and with queues filled
\* by earlier Steer and FollowUp calls, and the run they start.
InitCalls ==
    /\ messages \in InitialMessages \cup { <<>> }
    /\ modelSet \in BOOLEAN
    /\ steeringMode \in QueueModes
    /\ followUpMode = steeringMode
    /\ nSteer \in 0..MaxQueued
    /\ nFollowUp \in 0..(MaxQueued - nSteer)
    /\ steeringQueue = AllQueued("steer", nSteer)
    /\ followUpQueue = AllQueued("followUp", nFollowUp)
    /\ streamFnSet = TRUE
    /\ listeners = <<>>
    /\ InitIdle
    /\ UnitsIdle

NextCalls ==
    \/ Prompt
    \/ PromptRejected
    \/ PromptMessagesNil
    \/ Continue
    \/ LoopStep

SpecCalls == InitCalls /\ [][NextCalls]_vars

\* ----------------------------------------------- the observer goroutine
\* Subscribe: the listener gets the next id.  The map of listeners is kept
\* here as the ids in registration order.  Listeners subscribe while no run
\* is in progress.
Subscribe ==
    /\ Len(listeners) < MaxListeners
    /\ ~running
    /\ listeners' = Append(listeners, Len(listeners) + 1)
    /\ delivered' = Append(delivered, <<>>)
    /\ UNCHANGED << facadeVars, loopVars, streamVars, bookVars, callVars >>
    /\ UNCHANGED << running, runClosed, opc, seen, streamMessage,
                    pendingToolCalls, stateError, startMessages, waiter,
                    snapshot >>
    /\ UNCHANGED unitVars
    /\ UNCHANGED ctxVars

\* WaitForIdle up to the receive from the channel: with no channel the call
\* returns at once.
WaitForIdle ==
    /\ waiter = "none"
    /\ waiter' = IF running THEN "blocked" ELSE "returnedAtOnce"
    /\ UNCHANGED << facadeVars, loopVars, streamVars, bookVars, callVars >>
    /\ UNCHANGED << running, runClosed, opc, seen, streamMessage,
                    pendingToolCalls, stateError, startMessages, listeners,
                    delivered, snapshot >>
    /\ UNCHANGED unitVars
    /\ UNCHANGED ctxVars

\* A WaitForIdle that does not receive from the channel.
WaitForIdleReturnWithoutWaiting ==
    /\ waiter = "blocked"
    /\ waiter' = "returned"
    /\ UNCHANGED << facadeVars, loopVars, streamVars, bookVars, callVars >>
    /\ UNCHANGED << running, runClosed, opc, seen, streamMessage,
                    pendingToolCalls, stateError, startMessages, listeners,
                    delivered, snapshot >>
    /\ UNCHANGED unitVars
    /\ UNCHANGED ctxVars

\* WaitForIdle: the receive from the channel returns once it is closed.
WaitForIdleReturn ==
    /\ waiter = "blocked"
    /\ runClosed
    /\ waiter' = "returned"
    /\ UNCHANGED << facadeVars, loopVars, streamVars, bookVars, callVars >>
    /\ UNCHANGED << running, runClosed, opc, seen, streamMessage,
                    pendingToolCalls, stateError, startMessages, listeners,
                    delivered, snapshot >>
    /\ UNCHANGED unitVars
    /\ UNCHANGED ctxVars

\* A receive that loses an event when the loop is ahead.
RecvIndexSkipping == IF seen + 2 <= Len(pushed) THEN seen + 2 ELSE seen + 1

\* The index in the agent event stream of the event the observer receives
\* next.
RecvIndex == seen + 1

\* The event switch of the observer, field by field.
StreamMessageAfter(event) ==
    IF event.type \in {MessageEventStart, MessageEventUpdate} THEN event.msg
    ELSE IF event.type \in {MessageEventEnd, AgentEventEnd} THEN Null
    ELSE streamMessage

MessagesAfter(event) ==
    IF event.type = MessageEventEnd THEN Append(messages, event.msg)
    ELSE messages

\* An event switch without the case of tool_execution_end.
PendingToolCallsNeverRemoved(event) ==
    IF event.type = ToolExecutionEventStart
    THEN pendingToolCalls \cup {event.data.toolCallId}
    ELSE pendingToolCalls

PendingToolCallsAfter(event) ==
    IF event.type = ToolExecutionEventStart
    THEN pendingToolCalls \cup {event.data.toolCallId}
    ELSE IF event.type = ToolExecutionEventEnd
    THEN pendingToolCalls \ {event.data.toolCallId}
    ELSE pendingToolCalls

ErrorAfter(event) ==
    IF /\ event.type = TurnEventEnd
       /\ event.msg # Null
       /\ event.msg.role = "assistant"
       /\ event.msg.err # ""
    THEN event.msg.err
    ELSE stateError

IsStreamingAfter(event) ==
    IF event.type = AgentEventEnd THEN FALSE ELSE isStreaming

\* The orders in which a range over the map of listeners can yield them.
RECURSIVE MapOrders(_)
MapOrders(ids) ==
    IF ids = {} THEN { <<>> }
    ELSE UNION { { << id >> \o rest : rest \in MapOrders(ids \ {id}) } :
                 id \in ids }

ListenerIds == { listeners[i] : i \in 1..Len(listeners) }

\* The observer receives an event, applies it to the state under the lock
\* and copies the listeners under the lock.
ObserverApply ==
    /\ opc = "recv"
    /\ RecvIndex <= Len(pushed)
    /\ LET event == pushed[RecvIndex]
       IN  /\ streamMessage' = StreamMessageAfter(event)
           /\ messages' = MessagesAfter(event)
           /\ pendingToolCalls' = PendingToolCallsAfter(event)
           /\ stateError' = ErrorAfter(event)
           /\ isStreaming' = IsStreamingAfter(event)
    /\ seen' = RecvIndex
    /\ snapshot' \in MapOrders(ListenerIds)
    /\ opc' = "dispatch"
    /\ UNCHANGED << steeringQueue, followUpQueue, steeringMode, followUpMode,
                    streamFnSet, abortCancel, aborted, skipSteering, nSteer,
                    nFollowUp >>
    /\ UNCHANGED << loopVars, streamVars, bookVars, callVars >>
    /\ UNCHANGED << running, runClosed, startMessages, listeners, delivered,
                    waiter >>
    /\ UNCHANGED unitVars
    /\ UNCHANGED ctxVars

\* What each listener has been called with, after the listeners of ids
\* were called with the event at index.
Deliveries(ids, index) ==
    [l \in 1..Len(delivered) |->
        IF \E i \in 1..Len(ids) : ids[i] = l
        THEN Append(delivered[l], pushed[index])
        ELSE delivered[l]]

\* The observer calls the copied listeners, without the lock.
ObserverDispatch ==
    /\ opc = "dispatch"
    /\ delivered' = Deliveries(snapshot, seen)
    /\ snapshot' = <<>>
    /\ opc' = "recv"
    /\ UNCHANGED << facadeVars, loopVars, streamVars, bookVars, callVars >>
    /\ UNCHANGED << running, runClosed, seen, streamMessage,
                    pendingToolCalls, stateError, startMessages, listeners,
                    waiter >>
    /\ UNCHANGED unitVars
    /\ UNCHANGED ctxVars

\* The channel of events is closed and drained: the deferred cleanup of
\* the observer.
ObserverExit ==
    /\ opc = "recv"
    /\ closed
    /\ seen = Len(pushed)
    /\ isStreaming' = FALSE
    /\ streamMessage' = Null
    /\ pendingToolCalls' = {}
    /\ abortCancel' = FALSE
    /\ running' = FALSE
    /\ runClosed' = TRUE
    /\ opc' = "done"
    /\ UNCHANGED << messages, steeringQueue, followUpQueue, steeringMode,
                    followUpMode, streamFnSet, aborted, skipSteering, nSteer,
                    nFollowUp >>
    /\ UNCHANGED << loopVars, streamVars, bookVars, callVars >>
    /\ UNCHANGED << seen, stateError, startMessages, listeners, delivered,
                    waiter, snapshot >>
    /\ UNCHANGED unitVars
    /\ UNCHANGED ctxVars

\* A step of the loop goroutine while the observer is at most MaxLag events
\* behind.
LoopStepWithinLag ==
    /\ Len(pushed) - seen <= MaxLag
    /\ LoopStep

\* SpecFacade: one run started by Prompt, observed by the observer
\* goroutine, with listeners subscribing and a caller waiting for idle.
InitFacade ==
    /\ messages = << UserMessage("ctx", 1) >>
    /\ modelSet = TRUE
    /\ steeringMode = "one-at-a-time"
    /\ followUpMode = "one-at-a-time"
    /\ nSteer \in 0..MaxSteer
    /\ nFollowUp = 0
    /\ steeringQueue = AllQueued("steer", nSteer)
    /\ followUpQueue = AllQueued("followUp", nFollowUp)
    /\ streamFnSet = TRUE
    /\ listeners = <<>>
    /\ InitIdle
    /\ UnitsIdle

NextFacade ==
    \/ Subscribe
    \/ WaitForIdle
    \/ WaitForIdleReturn
    \/ Prompt
    \/ ObserverApply
    \/ ObserverDispatch
    \/ ObserverExit
    \/ LoopStepWithinLag

SpecFacade == InitFacade /\ [][NextFacade]_vars

\* ------------------------------------------------------------ termination
\* The run under the conditions of termination: every provider stream ends
\* with a done or error event, every tool returns, the observer keeps
\* receiving, no message is enqueued after the run has started, and the
\* assistant responses hold no tool call once the turns left are needed
\* for the messages still queued.
QuietFrom == Turn + Len(steeringQueue) + Len(followUpQueue) >= MaxTurns

RecvTerminalQuiet ==
    /\ RecvTerminal
    /\ QuietFrom => ToolCallsOf(message') = <<>>

\* The stream function is invoked within the turns explored: past them the
\* loop waits, it is not steered into a hook failure.
InvokeStreamWithinTurns ==
    /\ Turn < MaxTurns
    /\ InvokeStream

TerminatingLoopStep ==
    /\ Len(pushed) - seen <= MaxLag
    /\ \/ AgentLoop
       \/ AgentLoopContinue
       \/ PollSteeringAtStart
       \/ TurnBegin
       \/ PollFollowUp
       \/ InvokeStreamWithinTurns
       \/ RecvStart
       \/ RecvDelta
       \/ RecvTerminalQuiet
       \/ ExecuteToolCall
       \/ CheckSteeringAfterTool
       \/ PollSteeringAfterTurn

ObserverStep ==
    \/ ObserverApply
    \/ ObserverDispatch
    \/ ObserverExit

InitTerminate ==
    /\ messages = << UserMessage("ctx", 1) >>
    /\ modelSet = TRUE
    /\ steeringMode = "one-at-a-time"
    /\ followUpMode = "one-at-a-time"
    /\ nSteer \in 0..MaxSteer
    /\ nFollowUp \in 0..MaxFollowUp
    /\ steeringQueue = AllQueued("steer", nSteer)
    /\ followUpQueue = AllQueued("followUp", nFollowUp)
    /\ streamFnSet = TRUE
    /\ listeners = <<>>
    /\ InitIdle
    /\ UnitsIdle

NextTerminate ==
    \/ Prompt
    \/ Continue
    \/ Abort
    \/ TerminatingLoopStep
    \/ ObserverStep

\* The loop goroutine and the observer goroutine are scheduled as long as
\* they can take a step.
SpecTerminate ==
    /\ InitTerminate
    /\ [][NextTerminate]_vars
    /\ WF_vars(TerminatingLoopStep)
    /\ WF_vars(ObserverStep)

\* ------------------------------------------------------------- EventStream
\* The variables of the agent, its loop and its observer.
agentVars == << facadeVars, loopVars, streamVars, bookVars, callVars,
               obsVars, ctxVars >>

\* An agent on which nothing was called.
AgentIdle ==
    /\ messages = <<>>
    /\ modelSet = TRUE
    /\ steeringMode = "one-at-a-time"
    /\ followUpMode = "one-at-a-time"
    /\ nSteer = 0
    /\ nFollowUp = 0
    /\ steeringQueue = <<>>
    /\ followUpQueue = <<>>
    /\ streamFnSet = TRUE
    /\ listeners = <<>>
    /\ InitIdle

\* The events of an AssistantMessageEventStream: k names the message the
\* event carries as Partial, Message (done) or Error (error).
EventStart == "start"
EventTextDelta == "text_delta"
EventToolCallStart == "toolcall_start"
EventToolCallDelta == "toolcall_delta"
EventDone == "done"
EventError == "error"

StreamEventTypes == {EventStart, EventTextDelta, EventDone, EventError}

NoMessage == [kind |-> "nil", id |-> 0]

AssistantOf(k) == [kind |-> "assistant", id |-> k]

StreamEvent(type, k) ==
    [type |-> type,
     partial |-> IF type \in {EventDone, EventError}
                 THEN NoMessage ELSE AssistantOf(k),
     message |-> IF type = EventDone THEN AssistantOf(k) ELSE NoMessage,
     error |-> IF type = EventError THEN AssistantOf(k) ELSE NoMessage]

\* isComplete and extractResult of NewAssistantMessageEventStream.
IsComplete(event) == event.type \in {EventDone, EventError}

ExtractResult(event) ==
    IF event.type = EventDone THEN event.message
    ELSE IF event.type = EventError THEN event.error
    ELSE NoMessage

\* A Push that does not record the result of a terminal event.
PushFirstStepSkippingResult(event) == "sendEvent"

\* Push: a terminal event is first sent on resultCh, any other event goes
\* to the channel at once.
PushFirstStep(event) ==
    IF IsComplete(event) THEN "sendResult" ELSE "sendEvent"

\* The producer enters Push(event).
PushBegin(event) ==
    esProd' = [pc |-> PushFirstStep(event),
               pushes |-> esProd.pushes + 1,
               ends |-> esProd.ends,
               event |-> event]

\* The producer calls Push.
PushCall ==
    /\ esProd.pc = "ready"
    /\ esProd.pushes < MaxPushes
    /\ \E type \in StreamEventTypes :
           PushBegin(StreamEvent(type, esProd.pushes + 1))
    /\ UNCHANGED << esCh, esClosed, esResultCh, esSent, esCons, esRecv,
                    esGot >>
    /\ UNCHANGED << agentVars, fnVars, cvVars, pxVars >>

\* Push: `s.resultCh <- s.extractResult(event)`, which waits for room.
PushSendResult ==
    /\ esProd.pc = "sendResult"
    /\ Len(esResultCh) < ResultCapacity
    /\ esResultCh' = Append(esResultCh, ExtractResult(esProd.event))
    /\ esProd' = [esProd EXCEPT !.pc = "sendEvent"]
    /\ UNCHANGED << esCh, esClosed, esSent, esCons, esRecv, esGot >>
    /\ UNCHANGED << agentVars, fnVars, cvVars, pxVars >>

\* Push: `s.ch <- event`, which waits for room and panics on a closed
\* channel.
PushSendEvent ==
    /\ esProd.pc = "sendEvent"
    /\ IF esClosed
       THEN /\ esProd' = [esProd EXCEPT !.pc = "panicked"]
            /\ UNCHANGED << esCh, esSent >>
       ELSE /\ Len(esCh) < ChannelCapacity
            /\ esCh' = Append(esCh, esProd.event)
            /\ esSent' = Append(esSent, esProd.event)
            /\ esProd' = [esProd EXCEPT
                              !.pc = IF IsComplete(esProd.event)
                                     THEN "close" ELSE "ready"]
    /\ UNCHANGED << esClosed, esResultCh, esCons, esRecv, esGot >>
    /\ UNCHANGED << agentVars, fnVars, cvVars, pxVars >>

\* Push: a terminal event closes the channel, once.
PushClose ==
    /\ esProd.pc = "close"
    /\ esClosed' = TRUE
    /\ esProd' = [esProd EXCEPT !.pc = "ready"]
    /\ UNCHANGED << esCh, esResultCh, esSent, esCons, esRecv, esGot >>
    /\ UNCHANGED << agentVars, fnVars, cvVars, pxVars >>

\* The values a producer ends a stream with: nil or a message of its own.
EndResults == { NoMessage, AssistantOf(0) }

\* End(r): the result is sent unless resultCh is full, the channel is
\* closed, once.
EndStream(r) ==
    /\ esResultCh' = IF Len(esResultCh) < ResultCapacity
                     THEN Append(esResultCh, r) ELSE esResultCh
    /\ esClosed' = TRUE
    /\ esProd' = [esProd EXCEPT !.ends = esProd.ends + 1]

\* The producer calls End.
EndCall ==
    /\ esProd.pc = "ready"
    /\ esProd.ends < MaxEnds
    /\ \E r \in EndResults : EndStream(r)
    /\ UNCHANGED << esCh, esSent, esCons, esRecv, esGot >>
    /\ UNCHANGED << agentVars, fnVars, cvVars, pxVars >>

\* The producer returns: it makes no further call on the stream.
ProducerReturn ==
    /\ esProd.pc = "ready"
    /\ esProd' = [esProd EXCEPT !.pc = "returned"]
    /\ UNCHANGED << esCh, esClosed, esResultCh, esSent, esCons, esRecv,
                    esGot >>
    /\ UNCHANGED << agentVars, fnVars, cvVars, pxVars >>

\* The consumer, as streamAssistantResponse: it ranges over Events() and
\* calls Result() on a terminal event.
ConsumerRecv ==
    /\ esProd.pc # "panicked"
    /\ esCons = "ranging"
    /\ esCh # <<>>
    /\ esRecv' = Append(esRecv, Head(esCh))
    /\ esCh' = Tail(esCh)
    /\ esCons' = IF IsComplete(Head(esCh)) THEN "resultAfterTerminal"
                 ELSE "ranging"
    /\ UNCHANGED << esClosed, esResultCh, esProd, esSent, esGot >>
    /\ UNCHANGED << agentVars, fnVars, cvVars, pxVars >>

\* The range ends when the channel is closed and empty; the consumer then
\* calls Result().
ConsumerRangeEnds ==
    /\ esProd.pc # "panicked"
    /\ esCons = "ranging"
    /\ esCh = <<>>
    /\ esClosed
    /\ esCons' = "resultAfterClose"
    /\ UNCHANGED << esCh, esClosed, esResultCh, esProd, esSent, esRecv,
                    esGot >>
    /\ UNCHANGED << agentVars, fnVars, cvVars, pxVars >>

\* Result: `<-s.resultCh`.
ConsumerResult ==
    /\ esProd.pc # "panicked"
    /\ esCons \in {"resultAfterTerminal", "resultAfterClose"}
    /\ esResultCh # <<>>
    /\ esGot' = Append(esGot, Head(esResultCh))
    /\ esResultCh' = Tail(esResultCh)
    /\ esCons' = "done"
    /\ UNCHANGED << esCh, esClosed, esProd, esSent, esRecv >>
    /\ UNCHANGED << agentVars, fnVars, cvVars, pxVars >>

\* SpecStream: one EventStream, a producer making any calls of Push and End
\* and a consumer that reads as streamAssistantResponse does.
InitStream ==
    /\ AgentIdle
    /\ UnitsIdle

NextStream ==
    \/ PushCall
    \/ PushSendResult
    \/ PushSendEvent
    \/ PushClose
    \/ EndCall
    \/ ProducerReturn
    \/ ConsumerRecv
    \/ ConsumerRangeEnds
    \/ ConsumerResult

SpecStream == InitStream /\ [][NextStream]_vars

\* SpecComplete: Complete / CompleteSimple on the stream of a provider that
\* pushes up to MaxProviderEvents events, the last of them done or error,
\* while the caller is in Result() and nothing reads Events().
MaxProviderEvents == 66

TerminalPushed ==
    \/ \E i \in 1..Len(esSent) : IsComplete(esSent[i])
    \/ esProd.pc \in {"sendResult", "close"}
    \/ esProd.pc = "sendEvent" /\ IsComplete(esProd.event)

\* The provider pushes its next event: a text delta, or the terminal event;
\* the last event it may push is a terminal one.
ProviderPush ==
    /\ esProd.pc = "ready"
    /\ ~TerminalPushed
    /\ \E type \in {EventTextDelta, EventDone, EventError} :
          /\ esProd.pushes + 1 = MaxProviderEvents
                 => type \in {EventDone, EventError}
          /\ PushBegin(StreamEvent(type, esProd.pushes + 1))
    /\ UNCHANGED << esCh, esClosed, esResultCh, esSent, esCons, esRecv,
                    esGot >>
    /\ UNCHANGED << agentVars, fnVars, cvVars, pxVars >>

\* Complete: `return s.Result(), nil`.
CompleteResult ==
    /\ esCons = "inResult"
    /\ esResultCh # <<>>
    /\ esGot' = Append(esGot, Head(esResultCh))
    /\ esResultCh' = Tail(esResultCh)
    /\ esCons' = "done"
    /\ UNCHANGED << esCh, esClosed, esProd, esSent, esRecv >>
    /\ UNCHANGED << agentVars, fnVars, cvVars, pxVars >>

InitComplete ==
    /\ AgentIdle
    /\ ConvertIdle
    /\ ContextIdle
    /\ ProxyIdle
    /\ AssemblerIdle
    /\ FunctionsIdle
    /\ esCh = <<>>
    /\ esClosed = FALSE
    /\ esResultCh = <<>>
    /\ esProd = [pc |-> "ready", pushes |-> 0, ends |-> 0]
    /\ esSent = <<>>
    /\ esCons = "inResult"
    /\ esRecv = <<>>
    /\ esGot = <<>>

NextComplete ==
    \/ ProviderPush
    \/ PushSendResult
    \/ PushSendEvent
    \/ PushClose
    \/ CompleteResult

SpecComplete == InitComplete /\ [][NextComplete]_vars

\* ------------------------------------------------------------ the setters
\* What the application may pass to SetSystemPrompt and SetTools.
SystemPrompts == {"prompt 0", "prompt 1"}
ToolLists == {"tools 0", "tools 1"}

\* A setter call leaves the loop, its stream and the observer alone.
SetterFrame ==
    /\ nSets < MaxSets
    /\ nSets' = nSets + 1
    /\ UNCHANGED << steeringMode, followUpMode, streamFnSet, abortCancel,
                    aborted, skipSteering, nSteer, nFollowUp >>
    /\ UNCHANGED << loopVars, streamVars, bookVars >>
    /\ UNCHANGED << lastCall, lastError, running, runClosed, opc, seen,
                    startMessages, listeners, delivered, waiter, snapshot >>
    /\ UNCHANGED << ctxSystemPrompt, ctxTools, sfContexts >>
    /\ UNCHANGED unitVars

SetSystemPrompt ==
    /\ \E v \in SystemPrompts : systemPrompt' = v
    /\ UNCHANGED << tools, messages, isStreaming, steeringQueue,
                    followUpQueue, modelSet, streamMessage,
                    pendingToolCalls, stateError >>
    /\ SetterFrame

SetModel ==
    /\ \E m \in BOOLEAN : modelSet' = m
    /\ UNCHANGED << systemPrompt, tools, messages, isStreaming,
                    steeringQueue, followUpQueue, streamMessage,
                    pendingToolCalls, stateError >>
    /\ SetterFrame

SetTools ==
    /\ \E t \in ToolLists : tools' = t
    /\ UNCHANGED << systemPrompt, messages, isStreaming, steeringQueue,
                    followUpQueue, modelSet, streamMessage,
                    pendingToolCalls, stateError >>
    /\ SetterFrame

\* The lists the application may pass to ReplaceMessages.
ReplacementMessages == { << UserMessage("set", 1) >> }

ReplaceMessages ==
    /\ \E ms \in ReplacementMessages : messages' = ms
    /\ UNCHANGED << systemPrompt, tools, isStreaming, steeringQueue,
                    followUpQueue, modelSet, streamMessage,
                    pendingToolCalls, stateError >>
    /\ SetterFrame

AppendMessage ==
    /\ messages' = Append(messages, UserMessage("set", nSets + 2))
    /\ UNCHANGED << systemPrompt, tools, isStreaming, steeringQueue,
                    followUpQueue, modelSet, streamMessage,
                    pendingToolCalls, stateError >>
    /\ SetterFrame

ClearMessages ==
    /\ messages' = <<>>
    /\ UNCHANGED << systemPrompt, tools, isStreaming, steeringQueue,
                    followUpQueue, modelSet, streamMessage,
                    pendingToolCalls, stateError >>
    /\ SetterFrame

Reset ==
    /\ messages' = <<>>
    /\ isStreaming' = FALSE
    /\ streamMessage' = Null
    /\ pendingToolCalls' = {}
    /\ stateError' = ""
    /\ steeringQueue' = <<>>
    /\ followUpQueue' = <<>>
    /\ UNCHANGED << systemPrompt, tools, modelSet >>
    /\ SetterFrame

\* SpecSetters: one run of the loop started by Prompt or Continue, and the
\* setters of the facade called at any time before and during the run.
InitSetters ==
    /\ AgentIdle
    /\ UnitsIdle

NextSetters ==
    \/ Prompt
    \/ Continue
    \/ LoopStep
    \/ SetSystemPrompt
    \/ SetModel
    \/ SetTools
    \/ ReplaceMessages
    \/ AppendMessage
    \/ ClearMessages
    \/ Reset

SpecSetters == InitSetters /\ [][NextSetters]_vars

\* ------------------------------------------------------ DefaultConvertToLLM
\* The roles Message.Role() returns, "" for a message that holds no LLM
\* message.
MessageRoles == {"user", "assistant", "toolResult", ""}

\* The Custom field of an AgentMessage: nil or an application payload.
CustomValues == {"nil", "payload"}

\* The n-th agent message of a list: an LLM message or none, with or
\* without a custom payload.
AgentMessage(role, n, custom) == [role |-> role, n |-> n, custom |-> custom]

\* The application builds the list of agent messages.
AppendAgentMessage ==
    /\ Len(cvMessages) < MaxMessages
    /\ \E role \in MessageRoles, custom \in CustomValues :
           cvMessages' = Append(cvMessages,
               AgentMessage(role, Len(cvMessages) + 1, custom))
    /\ UNCHANGED cvOut
    /\ UNCHANGED << agentVars, fnVars, esVars, pxVars >>

\* A call of DefaultConvertToLLM on the list.
ConvertToLLM ==
    /\ cvOut' = [called |-> TRUE, in |-> cvMessages,
                 out |-> DefaultConvertToLLM(cvMessages)]
    /\ UNCHANGED cvMessages
    /\ UNCHANGED << agentVars, fnVars, esVars, pxVars >>

\* SpecConvert: DefaultConvertToLLM applied to any list of agent messages.
InitConvert ==
    /\ AgentIdle
    /\ UnitsIdle

NextConvert ==
    \/ AppendAgentMessage
    \/ ConvertToLLM

SpecConvert == InitConvert /\ [][NextConvert]_vars

\* ------------------------------------------------------ ParseStreamingJSON
\* A text is a sequence of characters.  The JSON texts of the model are
\* flat objects with string keys and number, string or null values, and the
\* text null; Unmarshal accepts exactly those, as json.Unmarshal into a map
\* does on texts without nested values, true, false and escapes.  The
\* literal null is one element of a text.
Quote == "\""
Space == " "
Digits == {"1"}
NullLiteral == "null"

RECURSIVE TrimLeft(_)
TrimLeft(s) ==
    IF s # <<>> /\ Head(s) = Space THEN TrimLeft(Tail(s)) ELSE s

RECURSIVE TrimRight(_)
TrimRight(s) ==
    IF s # <<>> /\ s[Len(s)] = Space
    THEN TrimRight(SubSeq(s, 1, Len(s) - 1))
    ELSE s

TrimSpace(s) == TrimRight(TrimLeft(s))

TrimSuffixComma(s) ==
    IF s # <<>> /\ s[Len(s)] = "," THEN SubSeq(s, 1, Len(s) - 1) ELSE s

\* A JSON object as the set of its <<key, value>> pairs; a later key
\* replaces an earlier one.  ok is err == nil; nil tells that the map
\* json.Unmarshal was given is still nil: after an error, and after the
\* text null.
JSONFail == [ok |-> FALSE, nil |-> TRUE, obj |-> {}]

Put(obj, key, val) == { p \in obj : p[1] # key } \cup { << key, val >> }

RECURSIVE UnmarshalFrom(_, _, _, _, _, _)
UnmarshalFrom(s, i, st, key, val, obj) ==
    IF i > Len(s)
    THEN IF st = "end" THEN [ok |-> TRUE, nil |-> FALSE, obj |-> obj]
         ELSE IF st = "endNull" THEN [ok |-> TRUE, nil |-> TRUE, obj |-> {}]
         ELSE JSONFail
    ELSE LET c == s[i]
             Go(st2, key2, val2, obj2) ==
                 UnmarshalFrom(s, i + 1, st2, key2, val2, obj2)
             Stay == Go(st, key, val, obj)
         IN  IF st = "start"
             THEN IF c = Space THEN Stay
                  ELSE IF c = "{" THEN Go("keyOrEnd", key, val, obj)
                  ELSE IF c = NullLiteral THEN Go("endNull", key, val, obj)
                  ELSE JSONFail
             ELSE IF st = "keyOrEnd"
             THEN IF c = Space THEN Stay
                  ELSE IF c = "}" THEN Go("end", key, val, obj)
                  ELSE IF c = Quote THEN Go("inKey", <<>>, val, obj)
                  ELSE JSONFail
             ELSE IF st = "key"
             THEN IF c = Space THEN Stay
                  ELSE IF c = Quote THEN Go("inKey", <<>>, val, obj)
                  ELSE JSONFail
             ELSE IF st = "inKey"
             THEN IF c = Quote THEN Go("colon", key, val, obj)
                  ELSE Go("inKey", Append(key, c), val, obj)
             ELSE IF st = "colon"
             THEN IF c = Space THEN Stay
                  ELSE IF c = ":" THEN Go("value", key, val, obj)
                  ELSE JSONFail
             ELSE IF st = "value"
             THEN IF c = Space THEN Stay
                  ELSE IF c = Quote THEN Go("inStr", key, <<>>, obj)
                  ELSE IF c \in Digits THEN Go("inNum", key, << c >>, obj)
                  ELSE IF c = NullLiteral
                  THEN Go("afterValue", key, <<>>,
                          Put(obj, key, << "null", <<>> >>))
                  ELSE JSONFail
             ELSE IF st = "inStr"
             THEN IF c = Quote
                  THEN Go("afterValue", key, <<>>,
                          Put(obj, key, << "string", val >>))
                  ELSE Go("inStr", key, Append(val, c), obj)
             ELSE IF st = "inNum"
             THEN IF c \in Digits THEN Go("inNum", key, Append(val, c), obj)
                  ELSE IF c = ","
                  THEN Go("key", key, <<>>, Put(obj, key, << "number", val >>))
                  ELSE IF c = "}"
                  THEN Go("end", key, <<>>, Put(obj, key, << "number", val >>))
                  ELSE IF c = Space
                  THEN Go("afterValue", key, <<>>,
                          Put(obj, key, << "number", val >>))
                  ELSE JSONFail
             ELSE IF st = "afterValue"
             THEN IF c = Space THEN Stay
                  ELSE IF c = "," THEN Go("key", key, val, obj)
                  ELSE IF c = "}" THEN Go("end", key, val, obj)
                  ELSE JSONFail
             ELSE IF c = Space THEN Stay ELSE JSONFail

\* json.Unmarshal of a text into a map.
Unmarshal(s) == UnmarshalFrom(s, 1, "start", <<>>, <<>>, {})

\* tryRepairAndParse: the scan that counts the open braces and brackets
\* outside strings.
RECURSIVE CountOpen(_, _, _, _, _, _)
CountOpen(s, i, inString, escaped, openBraces, openBrackets) ==
    IF i > Len(s)
    THEN [inString |-> inString, openBraces |-> openBraces,
          openBrackets |-> openBrackets]
    ELSE LET c == s[i]
         IN  IF escaped
             THEN CountOpen(s, i + 1, inString, FALSE, openBraces,
                            openBrackets)
             ELSE IF c = "\\" /\ inString
             THEN CountOpen(s, i + 1, inString, TRUE, openBraces,
                            openBrackets)
             ELSE IF c = Quote
             THEN CountOpen(s, i + 1, ~inString, FALSE, openBraces,
                            openBrackets)
             ELSE IF inString
             THEN CountOpen(s, i + 1, inString, FALSE, openBraces,
                            openBrackets)
             ELSE CountOpen(s, i + 1, inString, FALSE,
                            openBraces + (IF c = "{" THEN 1 ELSE 0)
                                       - (IF c = "}" THEN 1 ELSE 0),
                            openBrackets + (IF c = "[" THEN 1 ELSE 0)
                                         - (IF c = "]" THEN 1 ELSE 0))

Closers(n, c) == [i \in 1..n |-> c]

\* tryRepairAndParse without the repair: the text is parsed as it is.
TryRepairAndParseAsIs(s) ==
    [ok |-> Unmarshal(s).ok /\ ~Unmarshal(s).nil, obj |-> Unmarshal(s).obj]

\* tryRepairAndParse: ok is FALSE where the code returns nil, which is
\* after an error of json.Unmarshal and after the text null.
TryRepairAndParse(s) ==
    LET trimmed == TrimSuffixComma(TrimRight(s))
        open == CountOpen(trimmed, 1, FALSE, FALSE, 0, 0)
        repaired == trimmed
                    \o (IF open.inString THEN << Quote >> ELSE <<>>)
                    \o Closers(open.openBrackets, "]")
                    \o Closers(open.openBraces, "}")
        parsed == Unmarshal(repaired)
    IN  [ok |-> parsed.ok /\ ~parsed.nil, obj |-> parsed.obj]

\* ParseStreamingJSON: the map it returns; nil tells that it is the nil
\* map the fast path returns for the text null.
ParseStreamingJSONMap(text) ==
    LET partial == TrimSpace(text)
    IN  IF partial = <<>> THEN [nil |-> FALSE, obj |-> {}]
        ELSE IF Unmarshal(partial).ok
        THEN [nil |-> Unmarshal(partial).nil, obj |-> Unmarshal(partial).obj]
        ELSE IF TryRepairAndParse(partial).ok
        THEN [nil |-> FALSE, obj |-> TryRepairAndParse(partial).obj]
        ELSE [nil |-> FALSE, obj |-> {}]

\* ParseStreamingJSON: the entries of the map it returns.
ParseStreamingJSON(text) == ParseStreamingJSONMap(text).obj

\* SpecJSON: ParseStreamingJSON called on any text of up to MaxText
\* elements.
MaxText == 5

JSONAlphabet == {"{", "}", Quote, ":", ",", Space, "a", NullLiteral} \cup Digits

Texts == UNION { [1..n -> JSONAlphabet] : n \in 0..MaxText }

CallParseStreamingJSON ==
    /\ ~jsCall.called
    /\ jsCall' = [jsCall EXCEPT !.called = TRUE,
                                !.out = ParseStreamingJSONMap(jsCall.text)]
    /\ UNCHANGED << agentVars, esVars, cvVars, pxVars, paVars, ovCall >>

InitJSON ==
    /\ AgentIdle
    /\ StreamIdle
    /\ ConvertIdle
    /\ ContextIdle
    /\ ProxyIdle
    /\ AssemblerIdle
    /\ jsCall \in { [text |-> t, called |-> FALSE,
                     out |-> [nil |-> FALSE, obj |-> {}]] : t \in Texts }
    /\ ovCall = [msg |-> [stopReason |-> "stop", errorMessage |-> <<>>,
                          input |-> 0, cacheRead |-> 0],
                 contextWindow |-> 0, called |-> FALSE, out |-> FALSE]

NextJSON == CallParseStreamingJSON

SpecJSON == InitJSON /\ [][NextJSON]_vars

\* -------------------------------------------------------- IsContextOverflow
\* An error text is a sequence of pieces: two spellings of a phrase of
\* overflowPatterns, the head of a phrase that ends in \d+, numbers, the
\* pieces of the no-body pattern and other text.
MaxErrorPieces == 3
MaxTokens == 2
MaxWindow == 3

ErrorPieces ==
    {"prompt is too long", "PROMPT IS TOO LONG", "maximum prompt length is ",
     "7", "400", "500", " status code", " (no body)", "x"}

ErrorTexts == UNION { [1..n -> ErrorPieces] : n \in 0..MaxErrorPieces }

\* (?i): the pieces that differ in case only.
Lower(piece) ==
    IF piece = "PROMPT IS TOO LONG" THEN "prompt is too long" ELSE piece

\* \d+ at the head of a piece.
StartsWithDigits(piece) == piece \in {"7", "400", "500"}

\* overflowPatterns: (?i)prompt is too long and
\* (?i)maximum prompt length is \d+, matched anywhere in the text.
MatchesOverflowPattern(text) ==
    \E i \in 1..Len(text) :
        \/ Lower(text[i]) = "prompt is too long"
        \/ /\ Lower(text[i]) = "maximum prompt length is "
           /\ i < Len(text)
           /\ StartsWithDigits(text[i + 1])

\* noBodyPattern: (?i)^4(00|13)\s*(status code)?\s*\(no body\), matched at
\* the start of the text only.
MatchesNoBodyPattern(text) ==
    /\ Len(text) >= 2
    /\ text[1] = "400"
    /\ \/ text[2] = " (no body)"
       \/ /\ text[2] = " status code"
          /\ Len(text) >= 3
          /\ text[3] = " (no body)"

\* IsContextOverflow with >= for > in the silent-overflow test.
IsContextOverflowAtWindow(msg, contextWindow) ==
    \/ /\ msg.stopReason = StopReasonError
       /\ msg.errorMessage # <<>>
       /\ \/ MatchesOverflowPattern(msg.errorMessage)
          \/ MatchesNoBodyPattern(msg.errorMessage)
    \/ /\ contextWindow > 0
       /\ msg.stopReason = StopReasonStop
       /\ msg.input + msg.cacheRead >= contextWindow

IsContextOverflow(msg, contextWindow) ==
    \/ /\ msg.stopReason = StopReasonError
       /\ msg.errorMessage # <<>>
       /\ \/ MatchesOverflowPattern(msg.errorMessage)
          \/ MatchesNoBodyPattern(msg.errorMessage)
    \/ /\ contextWindow > 0
       /\ msg.stopReason = StopReasonStop
       /\ msg.input + msg.cacheRead > contextWindow

\* SpecOverflow: IsContextOverflow called on any message and window.
OverflowStopReasons ==
    {StopReasonStop, StopReasonToolUse, StopReasonError, StopReasonAborted}

CallIsContextOverflow ==
    /\ ~ovCall.called
    /\ ovCall' = [ovCall EXCEPT
                     !.called = TRUE,
                     !.out = IsContextOverflow(ovCall.msg,
                                               ovCall.contextWindow)]
    /\ UNCHANGED << agentVars, esVars, cvVars, pxVars, paVars, jsCall >>

InitOverflow ==
    /\ AgentIdle
    /\ StreamIdle
    /\ ConvertIdle
    /\ ContextIdle
    /\ ProxyIdle
    /\ AssemblerIdle
    /\ jsCall = [text |-> <<>>, called |-> FALSE,
                 out |-> [nil |-> FALSE, obj |-> {}]]
    /\ \E r \in OverflowStopReasons, e \in ErrorTexts,
          i \in 0..MaxTokens, c \in 0..MaxTokens, w \in -1..MaxWindow :
          ovCall = [msg |-> [stopReason |-> r, errorMessage |-> e,
                             input |-> i, cacheRead |-> c],
                    contextWindow |-> w, called |-> FALSE, out |-> FALSE]

NextOverflow == CallIsContextOverflow

SpecOverflow == InitOverflow /\ [][NextOverflow]_vars

\* ------------------------------------------------------------- StreamProxy
\* The argument texts a server streams for a tool call:
\* {"a":1} and {"a": "b","b":11}.
Documents ==
    { << "{", Quote, "a", Quote, ":", "1", "}" >>,
      << "{", Quote, "a", Quote, ":", Space, Quote, "b", Quote, ",",
         Quote, "b", Quote, ":", "1", "1", "}" >> }

\* What the server may do with the request.
RequestOutcomes == {"ok", "request failed", "Proxy error"}

\* The lines of a response body: a line without the "data: " prefix, and
\* data lines by the type of their event, "ping" being a type
\* processProxyEvent does not know.
LineKinds == {"comment", "ping", "start", "toolcall_start", "toolcall_delta",
              "done", "error"}

\* emitProxyError: partial becomes an error message, Push(error) begins;
\* End follows in ProxyErrorEnd.
EmitProxyError(errMsg) ==
    /\ pxPartial' = [pxPartial EXCEPT !.stopReason = "error",
                                      !.errorMessage = errMsg]
    /\ PushBegin(StreamEvent(EventError, pxLines))

\* StreamProxy: the request.
ProxyRequest ==
    /\ pxPc = "request"
    /\ esProd.pc = "ready"
    /\ \E doc \in Documents : pxDoc' = doc
    /\ \E outcome \in RequestOutcomes :
          IF outcome = "ok"
          THEN /\ pxPc' = "scan"
               /\ UNCHANGED << pxPartial, esProd >>
          ELSE /\ pxPc' = "errorEnd"
               /\ EmitProxyError(outcome)
    /\ UNCHANGED << pxLines, pxArgText >>
    /\ UNCHANGED << esCh, esClosed, esResultCh, esSent, esCons, esRecv,
                    esGot >>
    /\ UNCHANGED << agentVars, fnVars, cvVars >>

\* emitProxyError: End(partial) after the Push, and the goroutine returns.
ProxyErrorEnd ==
    /\ pxPc = "errorEnd"
    /\ esProd.pc = "ready"
    /\ EndStream(AssistantOf(pxLines))
    /\ pxPc' = "returned"
    /\ UNCHANGED << pxLines, pxPartial, pxDoc, pxArgText >>
    /\ UNCHANGED << esCh, esSent, esCons, esRecv, esGot >>
    /\ UNCHANGED << agentVars, fnVars, cvVars >>

\* processProxyEvent: partial after a line of the given kind; fragment is
\* the Delta of a toolcall_delta line.
PartialAfter(kind, fragment) ==
    IF kind = "toolcall_start"
    THEN [pxPartial EXCEPT !.toolCall = TRUE, !.arguments = {}]
    ELSE IF kind = "toolcall_delta" /\ pxPartial.toolCall
    THEN [pxPartial EXCEPT !.arguments = ParseStreamingJSON(fragment)]
    ELSE IF kind = "done"
    THEN [pxPartial EXCEPT !.stopReason = "stop"]
    ELSE IF kind = "error"
    THEN [pxPartial EXCEPT !.stopReason = "error",
                           !.errorMessage = "server error"]
    ELSE pxPartial

\* processProxyEvent: whether the line yields an event.
YieldsEvent(kind) ==
    /\ kind \notin {"comment", "ping"}
    /\ kind = "toolcall_delta" => pxPartial.toolCall

\* The scan loop of StreamProxy: one line of the body.  The server sends
\* toolcall_start once and then the argument text in fragments of any
\* length.
ProxyScanLine ==
    /\ pxPc = "scan"
    /\ esProd.pc = "ready"
    /\ pxLines < MaxLines
    /\ \E kind \in LineKinds, n \in 1..Len(pxDoc) :
          LET from == Len(pxArgText) + 1
              fragment == IF kind = "toolcall_delta"
                          THEN SubSeq(pxDoc, from, from + n - 1)
                          ELSE <<>>
          IN  /\ kind = "toolcall_start" => ~pxPartial.toolCall
              /\ IF kind = "toolcall_delta"
                 THEN pxPartial.toolCall /\ from + n - 1 <= Len(pxDoc)
                 ELSE n = 1
              /\ pxPartial' = PartialAfter(kind, fragment)
              /\ pxArgText' = pxArgText \o fragment
              /\ IF YieldsEvent(kind)
                 THEN PushBegin(StreamEvent(kind, pxLines + 1))
                 ELSE UNCHANGED esProd
    /\ pxLines' = pxLines + 1
    /\ UNCHANGED << pxPc, pxDoc >>
    /\ UNCHANGED << esCh, esClosed, esResultCh, esSent, esCons, esRecv,
                    esGot >>
    /\ UNCHANGED << agentVars, fnVars, cvVars >>

\* The body ends: stream.End(partial), and the goroutine returns.
ProxyBodyEnds ==
    /\ pxPc = "scan"
    /\ esProd.pc = "ready"
    /\ EndStream(AssistantOf(pxLines))
    /\ pxPc' = "returned"
    /\ UNCHANGED << pxLines, pxPartial, pxDoc, pxArgText >>
    /\ UNCHANGED << esCh, esSent, esCons, esRecv, esGot >>
    /\ UNCHANGED << agentVars, fnVars, cvVars >>

\* SpecProxy: StreamProxy against any server, its stream read as
\* streamAssistantResponse reads it.
InitProxy ==
    /\ AgentIdle
    /\ UnitsIdle

NextProxy ==
    \/ ProxyRequest
    \/ ProxyErrorEnd
    \/ ProxyScanLine
    \/ ProxyBodyEnds
    \/ PushSendResult
    \/ PushSendEvent
    \/ PushClose
    \/ ConsumerRecv
    \/ ConsumerRangeEnds
    \/ ConsumerResult

SpecProxy == InitProxy /\ [][NextProxy]_vars

\* ------------------------------------------------------- processProxyEvent
\* The assembler of StreamProxy on its own: processProxyEvent applied to
\* the proxy events of any server, of any type and content index.
MaxProxyEvents == 3
MaxContentIndex == 1

\* The event types processProxyEvent knows, and "ping", one it does not.
ProxyEventTypes ==
    {"start", "text_start", "text_delta", "text_end", "thinking_start",
     "thinking_delta", "toolcall_start", "toolcall_delta", "toolcall_end",
     "done", "error", "ping"}

\* pe.ContentIndex is an int read from the line: any integer.
ContentIndexes == -1..MaxContentIndex

\* ai.Content{}: a block with no Text, Thinking or ToolCall.
EmptyContent == [kind |-> "none", deltas |-> 0, signed |-> FALSE]

\* ai.NewTextContent(""), ai.NewThinkingContent(""), ai.NewToolCallContent.
NewContent(kind) == [kind |-> kind, deltas |-> 0, signed |-> FALSE]

\* ensureContentIndex: append empty blocks while len(msg.Content) <= idx.
EnsureContentIndex(content, idx) ==
    IF Len(content) <= idx
    THEN content \o [i \in 1..(idx + 1 - Len(content)) |-> EmptyContent]
    ELSE content

\* The event types whose case reads or writes partial.Content[idx].
IndexesContent(type) == type \notin {"start", "done", "error", "ping"}

\* The kind of block a start, delta or end event is about.
KindOf(type) ==
    IF type \in {"text_start", "text_delta", "text_end"} THEN "text"
    ELSE IF type \in {"thinking_start", "thinking_delta"} THEN "thinking"
    ELSE "toolCall"

\* processProxyEvent: the cases of the switch on partial.Content, the
\* block at Go index idx being content[idx + 1].
ContentAfter(content, type, idx) ==
    LET c == content[idx + 1]
    IN  IF type \in {"text_start", "thinking_start", "toolcall_start"}
        THEN [content EXCEPT ![idx + 1] = NewContent(KindOf(type))]
        ELSE IF c.kind # KindOf(type)
        THEN content
        ELSE IF type \in {"text_delta", "thinking_delta", "toolcall_delta"}
        THEN [content EXCEPT ![idx + 1].deltas = c.deltas + 1]
        ELSE IF type = "text_end"
        THEN [content EXCEPT ![idx + 1].signed = TRUE]
        ELSE content

\* processProxyEvent: whether it returns an event.
YieldsProxyEvent(content, type, idx) ==
    /\ type # "ping"
    /\ (IndexesContent(type)
        /\ type \notin {"text_start", "thinking_start", "toolcall_start"})
       => content[idx + 1].kind = KindOf(type)

\* processProxyEvent on one proxy event.  ensureContentIndex runs before
\* the switch, for every type; a negative index panics where the case
\* indexes partial.Content.
ProcessProxyEvent ==
    /\ paPc = "ready"
    /\ paCount < MaxProxyEvents
    /\ \E type \in ProxyEventTypes, idx \in ContentIndexes :
          LET ensured == EnsureContentIndex(paContent, idx)
          IN  IF IndexesContent(type) /\ idx < 0
              THEN /\ paPc' = "panicked"
                   /\ paContent' = ensured
                   /\ paLast' = [type |-> type, contentIndex |-> idx,
                                 yields |-> FALSE]
              ELSE /\ paPc' = paPc
                   /\ paContent' = IF IndexesContent(type)
                                   THEN ContentAfter(ensured, type, idx)
                                   ELSE ensured
                   /\ paLast' = [type |-> type, contentIndex |-> idx,
                                 yields |-> IF IndexesContent(type)
                                            THEN YieldsProxyEvent(ensured,
                                                                  type, idx)
                                            ELSE type # "ping"]
    /\ paCount' = paCount + 1
    /\ UNCHANGED << agentVars, esVars, cvVars, pxVars, jsCall, ovCall >>

InitAssembler ==
    /\ AgentIdle
    /\ UnitsIdle

NextAssembler == ProcessProxyEvent

SpecAssembler == InitAssembler /\ [][NextAssembler]_vars

\* SpecQueue: dequeueSteeringMessages and dequeueFollowUpMessages called on
\* an agent made with any of the mode options and with filled queues.
ModeOptions == {"", "one-at-a-time", "all"}

\* NewAgent: an option left empty keeps the default mode.
NewAgentMode(opt) == IF opt # "" THEN opt ELSE "one-at-a-time"

InitQueue ==
    /\ messages = <<>>
    /\ modelSet = TRUE
    /\ \E opt \in ModeOptions : steeringMode = NewAgentMode(opt)
    /\ \E opt \in ModeOptions : followUpMode = NewAgentMode(opt)
    /\ nSteer \in 0..MaxQueued
    /\ nFollowUp \in 0..MaxQueued
    /\ steeringQueue = AllQueued("steer", nSteer)
    /\ followUpQueue = AllQueued("followUp", nFollowUp)
    /\ streamFnSet = TRUE
    /\ listeners = <<>>
    /\ InitIdle
    /\ UnitsIdle

DequeueSteeringMessages ==
    /\ Len(polls) < MaxDequeues
    /\ steeringQueue' = DequeueRemaining(steeringQueue, steeringMode)
    /\ polls' = Append(polls,
                       [queue |-> "steering", site |-> "dequeue",
                        returned |-> DequeueReturned(steeringQueue,
                                                     steeringMode),
                        at |-> 0])
    /\ UNCHANGED << messages, isStreaming, followUpQueue, steeringMode,
                    followUpMode, streamFnSet, abortCancel, aborted,
                    skipSteering, nSteer, nFollowUp >>
    /\ UNCHANGED << loopVars, streamVars, sfCalls, executed, abortedAt >>
    /\ UNCHANGED << callVars, obsVars >>
    /\ UNCHANGED unitVars
    /\ UNCHANGED ctxVars

DequeueFollowUpMessages ==
    /\ Len(polls) < MaxDequeues
    /\ followUpQueue' = DequeueRemaining(followUpQueue, followUpMode)
    /\ polls' = Append(polls,
                       [queue |-> "followUp", site |-> "dequeue",
                        returned |-> DequeueReturned(followUpQueue,
                                                     followUpMode),
                        at |-> 0])
    /\ UNCHANGED << messages, isStreaming, steeringQueue, steeringMode,
                    followUpMode, streamFnSet, abortCancel, aborted,
                    skipSteering, nSteer, nFollowUp >>
    /\ UNCHANGED << loopVars, streamVars, sfCalls, executed, abortedAt >>
    /\ UNCHANGED << callVars, obsVars >>
    /\ UNCHANGED unitVars
    /\ UNCHANGED ctxVars

NextQueue ==
    \/ DequeueSteeringMessages
    \/ DequeueFollowUpMessages

SpecQueue == InitQueue /\ [][NextQueue]_vars

Next ==
    \/ Steer
    \/ FollowUp
    \/ Abort
    \/ Prompt
    \/ Continue
    \/ AgentLoop
    \/ AgentLoopContinue
    \/ PollSteeringAtStart
    \/ TurnBegin
    \/ PollFollowUp
    \/ InvokeStream
    \/ RecvStart
    \/ RecvDelta
    \/ RecvTerminal
    \/ RecvClosed
    \/ ExecuteToolCall
    \/ CheckSteeringAfterTool
    \/ PollSteeringAfterTurn

Spec == Init /\ [][Next]_vars

\* -------------------------------------------------------------- properties
LastEvent == pushed[Len(pushed)]

EventIndices == 1..Len(pushed)

\* C1: in every run the first event pushed is agent_start and no other is;
\* agent_end is pushed at most once and nothing is pushed after it; the
\* stream is closed exactly when agent_end was pushed, with its result
\* resolved; a run that has ended has pushed agent_end.
C1_EventBracketing ==
    /\ pushed # <<>> => pushed[1].type = AgentEventStart
    /\ \A i \in EventIndices :
          /\ pushed[i].type = AgentEventStart => i = 1
          /\ pushed[i].type = AgentEventEnd => i = Len(pushed)
    /\ closed <=> (pushed # <<>> /\ LastEvent.type = AgentEventEnd)
    /\ closed => result.set
    /\ pc = "done" => closed

\* A run of two turns with a tool execution has ended.
C1_Witness ==
    /\ pc = "done"
    /\ closed
    /\ Turn = MaxTurns
    /\ executed # <<>>

\* The messages finalised through message_end among `events`, in order.
MessageEnds(events) ==
    LET ends == SelectSeq(events, LAMBDA e : e.type = MessageEventEnd)
    IN  [i \in 1..Len(ends) |-> ends[i].msg]

\* C2: the list agent_end carries, which is also the result of the stream,
\* equals the concatenation, in event order, of the messages finalised
\* through message_end events during the run.
C2_MessageLedger ==
    \A i \in EventIndices :
        pushed[i].type = AgentEventEnd =>
            /\ pushed[i].data = MessageEnds(SubSeq(pushed, 1, i))
            /\ result.value = pushed[i].data

\* Two message events are about the same message: the same user or
\* tool-result message, or the assistant message of the same turn.
SameMessage(a, b) ==
    /\ a.role = b.role
    /\ IF a.role = "assistant" THEN a.turn = b.turn ELSE a = b

MessageOpenTypes == {MessageEventStart, MessageEventUpdate}
MessageCloseTypes == {MessageEventUpdate, MessageEventEnd}

\* C3: every message_start is followed, before any other message_start,
\* turn_end or agent_end, by the message_end of the same message, with
\* nothing but message_update events in between; every message_update lies
\* between the message_start and the message_end of the assistant message
\* being streamed.
C3_MessageEventsMatch ==
    \A i \in EventIndices :
        /\ pushed[i].type \in MessageOpenTypes /\ i < Len(pushed) =>
              /\ pushed[i + 1].type \in MessageCloseTypes
              /\ SameMessage(pushed[i].msg, pushed[i + 1].msg)
        /\ pushed[i].type \in MessageCloseTypes =>
              /\ i > 1
              /\ pushed[i - 1].type \in MessageOpenTypes
              /\ SameMessage(pushed[i - 1].msg, pushed[i].msg)
        /\ pushed[i].type = MessageEventUpdate =>
              pushed[i].msg.role = "assistant"

TurnEvents ==
    SelectSeq(pushed, LAMBDA e : e.type \in {TurnEventStart, TurnEventEnd})

\* C4: turn_start and turn_end strictly alternate, starting with the
\* turn_start pushed right after agent_start, and every turn_start has its
\* turn_end before agent_end, whichever way the run ends.
C4_TurnEventsAlternate ==
    /\ \A k \in 1..Len(TurnEvents) :
          TurnEvents[k].type =
              IF k % 2 = 1 THEN TurnEventStart ELSE TurnEventEnd
    /\ Len(pushed) >= 2 => pushed[2].type = TurnEventStart
    /\ closed => Len(TurnEvents) % 2 = 0

\* A run has ended in its second turn by a failing hook, or by an error or
\* aborted response.
C4_Witness ==
    /\ pc = "done"
    /\ Len(TurnEvents) = 4
    /\ newMessages[Len(newMessages)].role = "assistant"
    /\ newMessages[Len(newMessages)].stop \in
           {StopReasonError, StopReasonAborted}

ToolCallIds(m) == { m.calls[k].id : k \in 1..Len(m.calls) }

\* The tool_execution_start at index i comes after the message_end of an
\* assistant message that holds its tool call, in the same turn.
AfterAssistantMessageEnd(i) ==
    \E j \in 1..(i - 1) :
        /\ pushed[j].type = MessageEventEnd
        /\ pushed[j].msg.role = "assistant"
        /\ pushed[i].data.toolCallId \in ToolCallIds(pushed[j].msg)
        /\ \A m \in j..i : pushed[m].type # TurnEventEnd

\* The tool_execution_start at index i is followed by updates of the same
\* call only, then by the tool_execution_end of that call and by the
\* message_start and message_end of its tool result.
ToolCallCompletes(i) ==
    \E e \in (i + 1)..(Len(pushed) - 2) :
        /\ pushed[e].type = ToolExecutionEventEnd
        /\ pushed[e].data.toolCallId = pushed[i].data.toolCallId
        /\ \A m \in (i + 1)..(e - 1) :
              /\ pushed[m].type = ToolExecutionEventUpdate
              /\ pushed[m].data.toolCallId = pushed[i].data.toolCallId
        /\ pushed[e + 1].type = MessageEventStart
        /\ pushed[e + 2].type = MessageEventEnd
        /\ pushed[e + 1].msg = pushed[e + 2].msg
        /\ pushed[e + 1].msg.role = "toolResult"
        /\ pushed[e + 1].msg.toolCallId = pushed[i].data.toolCallId

\* C5: every tool_execution_start is pushed after the assistant's
\* message_end and before that turn's turn_end, is matched by the
\* tool_execution_end of the same call, and the end and the tool-result
\* message pair of a call precede the start of the next call.
C5_ToolEventsSequential ==
    \A i \in EventIndices :
        pushed[i].type = ToolExecutionEventStart =>
            /\ AfterAssistantMessageEnd(i)
            /\ ToolCallCompletes(i)

LastPoll == polls[Len(polls)]

\* A steering poll after a tool call that returned messages.
Interrupt(p) ==
    /\ p.queue = "steering"
    /\ p.site = "tool"
    /\ p.returned # <<>>

\* The last poll interrupted a tool batch and the loop has not received the
\* next response yet: message, toolIndex and results are those of the batch.
BatchInterrupted ==
    /\ polls # <<>>
    /\ Interrupt(LastPoll)
    /\ pc \in {"inner", "stream", "recv"}

\* The four events of the skipped call tc with result r, from index b + 1.
SkipEventsAt(b, tc, r) ==
    /\ pushed[b + 1].type = ToolExecutionEventStart
    /\ pushed[b + 1].data.toolCallId = tc.id
    /\ pushed[b + 2].type = ToolExecutionEventEnd
    /\ pushed[b + 2].data.toolCallId = tc.id
    /\ pushed[b + 2].data.isError
    /\ pushed[b + 2].data.content = SkippedContent
    /\ pushed[b + 3] = AgentEvent(MessageEventStart, r, <<>>)
    /\ pushed[b + 4] = AgentEvent(MessageEventEnd, r, <<>>)

\* C6: when the steering provider returns messages right after the k-th of
\* the N tool calls of a batch, the batch has exactly N results in tool-call
\* order, which turn_end carries; results 1..k are those the
\* tool_execution_end events reported and are no skip results; results
\* k+1..N are errors whose content is the skip text; Execute was invoked
\* for none of the calls k+1..N; each skipped call has its own
\* tool_execution_start/end and message_start/end.
C6_SkipSymmetry ==
    BatchInterrupted =>
        LET calls == message.calls
            N == Len(calls)
            k == toolIndex
            at == LastPoll.at
        IN  /\ Len(results) = N
            /\ \A i \in 1..N :
                  /\ results[i].role = "toolResult"
                  /\ results[i].toolCallId = calls[i].id
            /\ \A i \in 1..k :
                  /\ results[i].content.text # SkippedText
                  /\ \E j \in 1..at :
                        /\ pushed[j].type = ToolExecutionEventEnd
                        /\ pushed[j].data.toolCallId = calls[i].id
                        /\ pushed[j].data.content = results[i].content
                        /\ pushed[j].data.isError = results[i].isError
            /\ \A i \in (k + 1)..N :
                  /\ results[i].isError
                  /\ results[i].content = SkippedContent
                  /\ \A x \in 1..Len(executed) : executed[x] # calls[i].id
                  /\ SkipEventsAt(at + 4 * (i - k - 1), calls[i], results[i])
            /\ pushed[at + 4 * (N - k) + 1] =
                   AgentEvent(TurnEventEnd, message, results)

\* Steering arrived after the first of two tool calls.
C6_Witness ==
    /\ BatchInterrupted
    /\ toolIndex = 1
    /\ Len(message.calls) = 2

\* The index of the first turn_end pushed after the first `at` events.
FirstTurnEndAfter(at) ==
    CHOOSE j \in (at + 1)..Len(pushed) :
        /\ pushed[j].type = TurnEventEnd
        /\ \A m \in (at + 1)..(j - 1) : pushed[m].type # TurnEventEnd

IsSuffix(s, t) ==
    /\ Len(s) <= Len(t)
    /\ SubSeq(t, Len(t) - Len(s) + 1, Len(t)) = s

\* ms holds the messages of s, contiguous, right after message m.
Follows(ms, m, s) ==
    \E pos \in 1..(Len(ms) - Len(s)) :
        /\ ms[pos] = m
        /\ SubSeq(ms, pos + 1, pos + Len(s)) = s

C8_ErrorOrAbortedEndsRun ==
    \A i \in EventIndices :
        ( /\ pushed[i].type = MessageEventEnd
          /\ pushed[i].msg.role = "assistant"
          /\ pushed[i].msg.stop \in {StopReasonError, StopReasonAborted} )
        =>
            /\ Len(pushed) = i + 2
            /\ pushed[i + 1] = AgentEvent(TurnEventEnd, pushed[i].msg, <<>>)
            /\ pushed[i + 2].type = AgentEventEnd
            /\ pc = "done"
            /\ closed
            /\ Turn = pushed[i].msg.turn
            /\ \A q \in 1..Len(polls) : polls[q].at < i
            /\ \A j \in EventIndices :
                  pushed[j].type = ToolExecutionEventStart =>
                      pushed[j].data.toolCallId \notin
                          ToolCallIds(pushed[i].msg)
            /\ \A x \in 1..Len(executed) :
                  executed[x] \notin ToolCallIds(pushed[i].msg)

\* A run has ended on an aborted response that holds tool calls.
C8_Witness ==
    /\ pc = "done"
    /\ Len(pushed) > 2
    /\ pushed[Len(pushed) - 2].type = MessageEventEnd
    /\ pushed[Len(pushed) - 2].msg.role = "assistant"
    /\ pushed[Len(pushed) - 2].msg.stop = StopReasonAborted
    /\ pushed[Len(pushed) - 2].msg.calls # <<>>

\* The run ended by leaving the outer loop, not inside a turn.
NormalExit ==
    /\ closed
    /\ pushed[Len(pushed) - 1].msg.stop \notin
           {StopReasonError, StopReasonAborted}

\* C9: the follow-up provider is polled only after a turn whose response
\* held no tool calls and whose steering poll returned nothing; a non-empty
\* result becomes the pending messages of a further turn, which starts with
\* turn_start and the message_start/message_end of those messages; an empty
\* result is followed by agent_end and the end of the run; agent_end is
\* pushed once, as the last event, and on the exit from the outer loop
\* right after the follow-up provider returned an empty list.
C9_FollowUpDrain ==
    /\ \A q \in 1..Len(polls) :
          polls[q].queue = "followUp" =>
              LET at == polls[q].at
                  ret == polls[q].returned
              IN  /\ pushed[at].type = TurnEventEnd
                  /\ pushed[at].msg.calls = <<>>
                  /\ q > 1
                  /\ polls[q - 1].queue = "steering"
                  /\ polls[q - 1].returned = <<>>
                  /\ polls[q - 1].at = at
                  /\ ret # <<>> =>
                        IF Len(pushed) = at
                        THEN /\ pc = "inner"
                             /\ pendingMessages = ret
                             /\ ~closed
                        ELSE /\ pushed[at + 1].type = TurnEventStart
                             /\ SubSeq(pushed, at + 2, at + 1 + 2 * Len(ret))
                                    = MessagePairs(ret)
                  /\ ret = <<>> =>
                        /\ Len(pushed) = at + 1
                        /\ pushed[at + 1].type = AgentEventEnd
                        /\ pc = "done"
    /\ Cardinality({ i \in EventIndices :
                       pushed[i].type = AgentEventEnd }) <= 1
    /\ NormalExit =>
          /\ polls # <<>>
          /\ LastPoll.queue = "followUp"
          /\ LastPoll.returned = <<>>
          /\ LastPoll.at = Len(pushed) - 1

\* A run in which a follow-up message started a further turn has ended by
\* leaving the outer loop.
C9_Witness ==
    /\ NormalExit
    /\ \E q \in 1..Len(polls) :
          /\ polls[q].queue = "followUp"
          /\ polls[q].returned # <<>>

\* C10: when Abort() is called while the loop consumes the provider stream
\* of a turn, the stream ends with stop reason aborted or error and the run
\* ends with that assistant message: once the loop has left the stream, the
\* run is over and its last assistant message has one of these stop
\* reasons.
C10_AbortEndsStream ==
    (abortedAt = "streaming" /\ pc # "recv") =>
        /\ pc = "done"
        /\ message.role = "assistant"
        /\ message.stop \in {StopReasonAborted, StopReasonError}

\* The messages the loop's polls of `queue` returned, in poll order.
RECURSIVE PolledFrom(_, _)
PolledFrom(queue, ps) ==
    IF ps = <<>> THEN <<>>
    ELSE (IF Head(ps).queue = queue THEN Head(ps).returned ELSE <<>>)
         \o PolledFrom(queue, Tail(ps))

\* The queued messages Continue dequeued as the initial batch of the run.
TakenByContinue(src) ==
    SelectSeq(prompts, LAMBDA m : m.src = src)

\* C11: once Abort() has cancelled the run, and also after that run has
\* ended, each queue still holds, in queueing order, every message that was
\* queued and that neither Continue nor a poll of the loop dequeued.
C11_AbortKeepsQueues ==
    aborted =>
        /\ AllQueued("steer", nSteer) =
               TakenByContinue("steer") \o PolledFrom("steering", polls)
                   \o steeringQueue
        /\ AllQueued("followUp", nFollowUp) =
               TakenByContinue("followUp") \o PolledFrom("followUp", polls)
                   \o followUpQueue

\* An aborted run has ended while both queues hold a message.
C11_Witness ==
    /\ aborted
    /\ pc = "done"
    /\ steeringQueue # <<>>
    /\ followUpQueue # <<>>

\* The observable effects of a call that must not occur when it is rejected.
RunState ==
    << isStreaming, messages, steeringQueue, followUpQueue, pc, entry,
       prompts, pushed, closed, running, runClosed, abortCancel >>

\* C14: a Prompt / PromptMessages call made while the agent is streaming
\* returns "agent is already processing a prompt", one made on an agent
\* without a model returns "no model configured", and in both cases the call
\* starts no loop, pushes no event and leaves is_streaming, messages and the
\* two queues as they were.
C14_RejectedPromptChangesNothing ==
    [][ ( /\ isStreaming \/ ~modelSet
          /\ lastCall' = "prompt"
          /\ << lastCall, lastError >>' # << lastCall, lastError >> )
        => /\ lastError' = IF isStreaming
                           THEN "agent is already processing a prompt"
                           ELSE "no model configured"
           /\ RunState' = RunState ]_vars

\* A prompt was rejected while the run it would have disturbed had pushed
\* events and was still going on.
C14_Witness ==
    /\ lastCall = "prompt"
    /\ lastError = "agent is already processing a prompt"
    /\ isStreaming
    /\ pushed # <<>>
    /\ ~closed

\* A step of Continue on an idle agent that has messages.
ContinueStep ==
    /\ lastCall' = "continue"
    /\ pc = "idle"
    /\ ~isStreaming
    /\ messages # <<>>

\* The messages a step removed from the head of a queue.
Removed(queue, queueAfter) ==
    SubSeq(queue, 1, Len(queue) - Len(queueAfter))

\* C15: Continue on an idle agent whose last message is an assistant
\* message takes from the steering queue first and from the follow-up queue
\* only when steering gave nothing, and the messages it took are the initial
\* batch of the loop it starts; with both queues empty it fails and starts
\* no loop.  After a user or tool-result message it takes nothing and (on an
\* agent with a model) starts the loop in continuation mode.
C15_ContinuePriority ==
    [][ ContinueStep =>
        IF LastRole(messages) = "assistant"
        THEN /\ IsSuffix(steeringQueue', steeringQueue)
             /\ IsSuffix(followUpQueue', followUpQueue)
             /\ steeringQueue # <<>> =>
                    /\ steeringQueue' # steeringQueue
                    /\ followUpQueue' = followUpQueue
             /\ (steeringQueue = <<>> /\ followUpQueue # <<>>) =>
                    followUpQueue' # followUpQueue
             /\ (steeringQueue # <<>> \/ followUpQueue # <<>>) =>
                    /\ pc' = "spawned"
                    /\ entry' = "loop"
                    /\ prompts' = Removed(steeringQueue, steeringQueue')
                                     \o Removed(followUpQueue, followUpQueue')
             /\ (steeringQueue = <<>> /\ followUpQueue = <<>>) =>
                    /\ lastError' # ""
                    /\ RunState' = RunState
        ELSE /\ steeringQueue' = steeringQueue
             /\ followUpQueue' = followUpQueue
             /\ modelSet =>
                    /\ pc' = "spawned"
                    /\ entry' = "continue"
                    /\ prompts' = <<>> ]_vars

\* The messages of a sequence, as a set.
MessageSet(ms) == { ms[i] : i \in 1..Len(ms) }

\* C16: the continuation entry point refuses an empty context and a context
\* that ends with an assistant message, each with its own error, and then
\* no goroutine was started and no event was pushed; for any other context
\* it starts the run, no message_start or message_end of that run carries a
\* message of the context, and neither the result of the stream nor the
\* list of agent_end holds one.
C16_ContinuationEntry ==
    /\ lastCall = "promptMessages" =>
           IF messages = <<>>
           THEN /\ lastError = "cannot continue: no messages in context"
                /\ pc = "idle"
                /\ pushed = <<>>
           ELSE IF messages[Len(messages)].role = "assistant"
           THEN /\ lastError = "cannot continue from message role: assistant"
                /\ pc = "idle"
                /\ pushed = <<>>
           ELSE /\ lastError = ""
                /\ pc # "idle"
                /\ entry = "continue"
    /\ entry = "continue" =>
           /\ \A i \in EventIndices :
                  /\ pushed[i].type \in {MessageEventStart, MessageEventEnd}
                         => pushed[i].msg \notin MessageSet(startMessages)
                  /\ pushed[i].type = AgentEventEnd
                         => MessageSet(pushed[i].data)
                                \cap MessageSet(startMessages) = {}
           /\ result.set =>
                  MessageSet(result.value) \cap MessageSet(startMessages) = {}

\* A continuation run has ended with messages of its own in its result.
C16_Witness ==
    /\ lastCall = "promptMessages"
    /\ entry = "continue"
    /\ startMessages # <<>>
    /\ pc = "done"
    /\ result.set
    /\ result.value # <<>>

\* The queue and the mode a dequeue record is about.
QueueOf(name) == IF name = "steering" THEN steeringQueue ELSE followUpQueue

ModeOf(name) == IF name = "steering" THEN steeringMode ELSE followUpMode

\* The records of the dequeues of one queue.
PollsOf(name) == SelectSeq(polls, LAMBDA r : r.queue = name)

\* C17: both queues are one-at-a-time unless an option says otherwise.  A
\* dequeue in one-at-a-time mode returns the head and leaves the tail, a
\* dequeue in all mode returns the whole queue and leaves it empty, a
\* dequeue of an empty queue returns nothing and leaves it empty, and no
\* dequeue touches the other queue.  So the messages returned so far,
\* followed by what the queue still holds, are the queued messages in
\* queueing order; one-at-a-time hands out at most one per call and in all
\* mode the first call hands out everything.
C17_DequeueModes ==
    /\ NewAgentMode("") = "one-at-a-time"
    /\ [][ polls' # polls =>
           LET rec == polls'[Len(polls')]
               queue == QueueOf(rec.queue)
               after == IF rec.queue = "steering" THEN steeringQueue'
                        ELSE followUpQueue'
           IN  /\ rec.queue = "steering" => followUpQueue' = followUpQueue
               /\ rec.queue = "followUp" => steeringQueue' = steeringQueue
               /\ queue = <<>> => rec.returned = <<>> /\ after = <<>>
               /\ (queue # <<>> /\ ModeOf(rec.queue) = "one-at-a-time") =>
                      /\ rec.returned = << queue[1] >>
                      /\ after = SubSeq(queue, 2, Len(queue))
               /\ (queue # <<>> /\ ModeOf(rec.queue) = "all") =>
                      /\ rec.returned = queue
                      /\ after = <<>> ]_vars
    /\ [](\A name \in {"steering", "followUp"} :
            LET all == IF name = "steering"
                       THEN AllQueued("steer", nSteer)
                       ELSE AllQueued("followUp", nFollowUp)
                ps == PollsOf(name)
            IN  /\ PolledFrom(name, polls) \o QueueOf(name) = all
                /\ ModeOf(name) = "one-at-a-time" =>
                       \A i \in 1..Len(ps) :
                           ps[i].returned =
                               IF i <= Len(all) THEN << all[i] >> ELSE <<>>
                /\ ModeOf(name) = "all" =>
                       \A i \in 1..Len(ps) :
                           ps[i].returned = IF i = 1 THEN all ELSE <<>>)

\* Two steering messages were handed out one by one, two follow-up messages
\* at once, and a further dequeue found the follow-up queue empty.
C17_Witness ==
    /\ steeringMode = "one-at-a-time"
    /\ followUpMode = "all"
    /\ nSteer = 2
    /\ nFollowUp = 2
    /\ Len(PollsOf("steering")) = 2
    /\ Len(PollsOf("followUp")) = 2
    /\ steeringQueue = <<>>
    /\ followUpQueue = <<>>

\* The tool-call ids with a tool_execution_start and no tool_execution_end
\* among the first n events of the run.
StartedNotEnded(n) ==
    { id \in { pushed[i].data.toolCallId :
                 i \in { j \in 1..n :
                           pushed[j].type = ToolExecutionEventStart } } :
        Cardinality({ i \in 1..n :
                        /\ pushed[i].type = ToolExecutionEventStart
                        /\ pushed[i].data.toolCallId = id })
          > Cardinality({ i \in 1..n :
                            /\ pushed[i].type = ToolExecutionEventEnd
                            /\ pushed[i].data.toolCallId = id }) }

\* The observer has applied the agent_end event of the run.
AgentEndApplied ==
    /\ seen > 0
    /\ pushed[seen].type = AgentEventEnd

C13_FacadeMessages ==
    /\ opc # "none" =>
           messages = startMessages \o MessageEnds(SubSeq(pushed, 1, seen))
    /\ opc = "done" => messages = startMessages \o result.value

C19_RegistrationOrder ==
    opc = "dispatch" => snapshot = listeners

\* The number of events of the run the listeners have been called with.
Dispatched == IF opc = "dispatch" THEN seen - 1 ELSE seen

\* C20: what a subscriber has been called with is at every moment the
\* events the loop pushed, from the first one on, in the order of the
\* pushes, with no event left out and none twice, whatever the loop pushes
\* in the meantime; when the observer finishes every subscriber has been
\* called with all the events of the run.
C20_SubscriberOrder ==
    /\ [](\A l \in 1..Len(delivered) :
            /\ Len(delivered[l]) <= Len(pushed)
            /\ delivered[l] = SubSeq(pushed, 1, Len(delivered[l]))
            /\ opc \in {"recv", "dispatch"} =>
                   Len(delivered[l]) = Dispatched)
    /\ [][ (opc # "done" /\ opc' = "done") =>
           \A l \in 1..Len(delivered) : delivered'[l] = pushed' ]_vars

\* Two subscribers have been called with all the events of a run that had
\* several turns' worth of events, while the loop was still pushing.
C20_Witness ==
    /\ Len(listeners) = 2
    /\ opc = "recv"
    /\ ~closed
    /\ seen > 6
    /\ Len(pushed) > seen
    /\ delivered[1] = SubSeq(pushed, 1, seen)
    /\ delivered[2] = SubSeq(pushed, 1, seen)

\* The events of s that are terminal.
TerminalIndexes(s) == { i \in 1..Len(s) : IsComplete(s[i]) }

\* C21: an EventStream delivers pushed events in push order; a Push of a
\* terminal event records the extracted result before the event reaches the
\* channel, so that a consumer that has received the terminal event gets
\* from Result(), without waiting, the value extracted from that event; the
\* terminal event is the last event received, and the channel is closed
\* once Push has delivered it.
C21_OrderedDelivery ==
    /\ esRecv \o esCh = esSent
    /\ \A i \in TerminalIndexes(esSent) : i = Len(esSent)
    /\ (esCons = "resultAfterTerminal") =>
          /\ esResultCh # <<>>
          /\ Head(esResultCh) = ExtractResult(esRecv[Len(esRecv)])
    /\ (esCons = "done" /\ TerminalIndexes(esRecv) # {}) =>
          esGot = << ExtractResult(esRecv[Len(esRecv)]) >>
    /\ (TerminalIndexes(esSent) # {} /\ esProd.pc # "close") => esClosed

C21_Witness ==
    /\ Len(esRecv) = 3
    /\ esRecv[3].type = EventError
    /\ esCons = "done"
    /\ esGot = << AssistantOf(3) >>

\* C22: Result() does not deadlock when the producer stops without a
\* terminal event: once the producer has returned having sent no terminal
\* event, the consumer is done or has a step to take.
C22_ResultNeverBlocksForever ==
    (esProd.pc = "returned" /\ TerminalIndexes(esSent) = {}) =>
        \/ esCons = "done"
        \/ ENABLED ConsumerRecv
        \/ ENABLED ConsumerRangeEnds
        \/ ENABLED ConsumerResult

\* The tool call executeToolCalls is at.
CurrentCall == ToolCallsOf(message)[toolIndex]

\* The events pushed by the step.
PushedByStep == [i \in 1..(Len(pushed') - Len(pushed)) |->
                    pushed'[Len(pushed) + i]]

EventsOfStep == { PushedByStep[i] : i \in 1..Len(PushedByStep) }

\* A call that names no tool of the context, and a call whose Execute
\* returns an error.
ToolAbsent(tc) == tc.name \notin ToolNames

ExecuteFailed(tc) ==
    /\ tc.name \in ToolNames
    /\ Required(tc.name) \subseteq tc.args
    /\ ExecuteFails(tc.name)

FailureContent(tc) ==
    IF ToolAbsent(tc) THEN ToolContent("Tool not found", {tc.name})
    ELSE ToolContent("execute failed", {})

\* C23: a tool call that fails does not abort the batch: a call naming an
\* absent tool yields an error tool result, is_error true, with the text
\* "Tool <name> not found", a call whose Execute fails yields an error tool
\* result, is_error true, with the failure message; in both cases the loop
\* goes on to the steering check, the stream stays open, and when the check
\* returns no steering message the loop executes the next call of the batch.
C23_FailedCallDoesNotAbort ==
    [][/\ (pc = "tools" /\ pc' # pc
             /\ (ToolAbsent(CurrentCall) \/ ExecuteFailed(CurrentCall))) =>
            /\ results' = Append(results,
                  ToolResultMessage(CurrentCall,
                                    FailureContent(CurrentCall), TRUE))
            /\ ToolEvent(ToolExecutionEventEnd, CurrentCall,
                         FailureContent(CurrentCall), TRUE) \in EventsOfStep
            /\ pc' = "toolSteer"
            /\ toolIndex' = toolIndex
            /\ ~closed'
       /\ (pc = "toolSteer" /\ pc' # pc /\ results # <<>>
             /\ results[Len(results)].isError
             /\ SteeringReturned = <<>>
             /\ toolIndex < Len(ToolCallsOf(message))) =>
            /\ pc' = "tools"
            /\ toolIndex' = toolIndex + 1
            /\ results' = results
            /\ ~closed'
      ]_vars

\* Both calls of a batch were handled: the first failed, the second was
\* executed.
C23_Witness ==
    /\ Len(results) = 2
    /\ results[1].isError
    /\ results[1].content.text \in {"Tool not found", "execute failed"}
    /\ ~results[2].isError
    /\ results[2].toolCallId \in { executed[i] : i \in 1..Len(executed) }

\* C24: for a tool call whose arguments lack a name of the required list of
\* the tool's schema, Execute is not invoked and the call yields
\* tool_execution_end with is_error true and a text listing the missing
\* keys; the loop goes on to the steering check.
C24_MissingRequiredNotExecuted ==
    [][(/\ pc = "tools"
        /\ pc' # pc
        /\ CurrentCall.name \in ToolNames
        /\ ~(Required(CurrentCall.name) \subseteq CurrentCall.args)) =>
          /\ executed' = executed
          /\ ToolEvent(ToolExecutionEventEnd, CurrentCall,
                 ToolContent("missing required",
                       Required(CurrentCall.name) \ CurrentCall.args),
                 TRUE) \in EventsOfStep
          /\ pc' = "toolSteer"
      ]_vars

\* The failure texts of streamAssistantResponse before the stream function
\* is called.
HookFailureTexts ==
    {"transformContext", "convertToLLM", "no stream function provided"}

\* C25: when streamAssistantResponse fails before calling the stream
\* function (a hook fails or there is no stream function), the stream
\* function is not invoked, an assistant message with stop reason error and
\* the failure text is appended to the new messages, turn_end and agent_end
\* are pushed and the run ends with the stream closed on the new messages;
\* without a stream function every turn ends this way.
C25_HookFailureEndsRun ==
    [][(pc = "stream" /\ pc' # pc) =>
         /\ (~streamFnSet \/ sfCalls' = sfCalls) =>
              /\ sfCalls' = sfCalls
              /\ Len(newMessages') = Len(newMessages) + 1
              /\ LET am == newMessages'[Len(newMessages')]
                 IN  /\ newMessages' = Append(newMessages, am)
                     /\ am.role = "assistant"
                     /\ am.stop = StopReasonError
                     /\ am.err \in HookFailureTexts
                     /\ pushed' = pushed \o
                          << AgentEvent(TurnEventEnd, am, <<>>),
                             AgentEvent(AgentEventEnd, Null, newMessages') >>
              /\ closed'
              /\ result' = [set |-> TRUE, value |-> newMessages']
              /\ pc' = "done"
         /\ (sfCalls' # sfCalls) => (streamFnSet /\ pc' = "recv")
      ]_vars

\* A run ended by a failing convert-to-LLM hook in its second turn.
C25_Witness ==
    /\ pc = "done"
    /\ Len(sfCalls) = 1
    /\ newMessages # <<>>
    /\ newMessages[Len(newMessages)].err = "convertToLLM"
    /\ closed
    /\ result.value = newMessages

\* Whether s starts with p.
StartsWith(s, p) == Len(p) <= Len(s) /\ SubSeq(s, 1, Len(p)) = p

\* C26: the result of a run is the list of the messages the run produced,
\* in order, and holds no message of the input context: the list starts as
\* the prompt batch (AgentLoop) or empty (continuation), the run only
\* appends to it, and once the result is set it is that list, it is the
\* list agent_end carries, and no message of the input context is in it.
C26_ResultIsNewMessages ==
    /\ [](result.set =>
            /\ result.value = newMessages
            /\ pushed # <<>>
            /\ pushed[Len(pushed)].type = AgentEventEnd
            /\ pushed[Len(pushed)].data = result.value
            /\ MessageSet(result.value) \cap MessageSet(startMessages) = {}
            /\ entry = "loop" => StartsWith(result.value, prompts)
            /\ entry \in {"loop", "continue"})
    /\ [][/\ (pc = "spawned" /\ pc' # pc) =>
                newMessages' = IF entry = "loop" THEN prompts ELSE <<>>
          /\ (pc \notin {"idle", "spawned"}) =>
                StartsWith(newMessages', newMessages)
         ]_vars

\* A run started by Prompt that ended with the prompt, an assistant message
\* and more.
C26_Witness ==
    /\ result.set
    /\ entry = "loop"
    /\ prompts # <<>>
    /\ Len(result.value) >= Len(prompts) + 3

\* The messages of ms the spec lets through: no custom payload and the role
\* of an LLM message.
IsLLMMessage(m) ==
    m.custom = "nil" /\ m.role \in {"user", "assistant", "toolResult"}

\* C27: the output of the default converter is exactly the input messages
\* with no custom payload and role user, assistant or tool result, in the
\* same order.
C27_CustomNeverSent ==
    cvOut.called =>
        LET kept == SelectSeq(cvOut.in, IsLLMMessage)
        IN  cvOut.out = [i \in 1..Len(kept) |->
                            [role |-> kept[i].role, n |-> kept[i].n]]

\* The fields of AgentState the model holds.
AgentStateVars == << systemPrompt, tools, modelSet, messages, isStreaming,
                     streamMessage, pendingToolCalls, stateError >>

\* C28: the context of a running loop is a snapshot taken when the run
\* starts: the setters of the facade called during the run change neither
\* the system prompt, the tools nor the messages the loop passes to the
\* stream function, and no step of the loop writes a field of the facade's
\* state.
C28_SnapshotIsolation ==
    /\ [](/\ \A i \in 1..Len(sfContexts) :
                sfContexts[i] = [systemPrompt |-> ctxSystemPrompt,
                                 tools |-> ctxTools]
          /\ \A i \in 1..Len(sfCalls) :
                StartsWith(sfCalls[i], startMessages \o prompts)
          /\ Len(sfContexts) = Len(sfCalls))
    /\ [][/\ (pc = "idle" /\ pc' # "idle") =>
                /\ ctxSystemPrompt' = systemPrompt
                /\ ctxTools' = tools
                /\ ctxMessages' = messages
                /\ startMessages' = messages
          /\ (pc # "idle") =>
                /\ UNCHANGED << ctxSystemPrompt, ctxTools, startMessages >>
                /\ StartsWith(ctxMessages', startMessages)
          /\ AgentStateVars' # AgentStateVars =>
                UNCHANGED << loopVars, streamVars, bookVars, sfContexts >>
                    \/ pc = "idle"
         ]_vars

\* The second call of the stream function of a run was made with the
\* snapshot although the system prompt and the tools were set during the
\* run.
C28_Witness ==
    /\ Len(sfContexts) = 2
    /\ sfContexts[2] = [systemPrompt |-> "prompt 0", tools |-> "tools 0"]
    /\ systemPrompt = "prompt 1"
    /\ tools = "tools 1"

\* C29: a stream produced by StreamProxy delivers exactly one terminal
\* event, done or error, as its last event, whatever the server does: no
\* Push panics, and once the goroutine has returned the events sent hold
\* one terminal event, the last of them.
C29_OneTerminalEvent ==
    /\ esProd.pc # "panicked"
    /\ pxPc = "returned" =>
          /\ Cardinality(TerminalIndexes(esSent)) = 1
          /\ IsComplete(esSent[Len(esSent)])

\* C30: after toolcall_delta events the arguments of the tool call are the
\* streaming-JSON repair of the concatenation of all the fragments
\* received so far.
C30_ArgumentsOfAccumulatedText ==
    pxPartial.toolCall => pxPartial.arguments = ParseStreamingJSON(pxArgText)

\* C31: on the start event the assembler establishes a partial assistant
\* message whose content list is empty: when the first proxy event is the
\* start event, the partial message of the event it yields has no content
\* block.
C31_StartEstablishesEmptyContent ==
    (paCount = 1 /\ paLast.type = "start" /\ paLast.yields)
        => paContent = <<>>

\* C32: streaming JSON repair never fails.  For a text that is a valid
\* JSON object the result is the strict parse of the text.  For every other
\* text the result is a mapping: the parse of the repaired text (trailing
\* blanks and one trailing comma removed, an open string closed, the
\* missing "]" and then the missing "}" appended) where that is an object,
\* and a mapping without entries where the repaired text does not parse.
\* The map returned for the text null is Go's nil map, a mapping without
\* entries.
RepairedText(s) ==
    LET cut == TrimSuffixComma(TrimRight(TrimSpace(s)))
        open == CountOpen(cut, 1, FALSE, FALSE, 0, 0)
    IN  cut \o (IF open.inString THEN << Quote >> ELSE <<>>)
            \o Closers(open.openBrackets, "]")
            \o Closers(open.openBraces, "}")

IsObjectText(s) == Unmarshal(s).ok /\ ~Unmarshal(s).nil

C33_OverflowExactly ==
    ovCall.called =>
        LET msg == ovCall.msg
            window == ovCall.contextWindow
            byError == /\ msg.stopReason = StopReasonError
                       /\ \/ MatchesOverflowPattern(msg.errorMessage)
                          \/ MatchesNoBodyPattern(msg.errorMessage)
            silent == /\ window > 0
                      /\ msg.stopReason = StopReasonStop
                      /\ msg.input + msg.cacheRead > window
        IN  /\ ovCall.out <=> (byError \/ silent)
            /\ (msg.stopReason = StopReasonStop
                /\ msg.input + msg.cacheRead = window) => ~ovCall.out
            /\ (window = 0 /\ msg.stopReason # StopReasonError)
                   => ~ovCall.out

\* C33 witness: a stop message whose input and cache read add up to the
\* window was judged not to be an overflow.
C33_Witness ==
    /\ ovCall.called
    /\ ovCall.msg.stopReason = StopReasonStop
    /\ ovCall.contextWindow = 3
    /\ ovCall.msg.input + ovCall.msg.cacheRead = 3
    /\ ~ovCall.out

\* C34: after a tool batch the tool-result messages appended to the loop
\* context and to the new-messages log are, in order, the results returned
\* for the batch: the i-th appended message is the i-th result.  Stated on
\* the step that ends a batch.
BatchEnds == pc \in {"tools", "toolSteer"} /\ pc' \notin {"tools", "toolSteer"}

FollowUpPolled ==
    /\ Len(polls') = Len(polls) + 1
    /\ polls'[Len(polls')].queue = "followUp"

InnerLoopExited ==
    /\ pc = "inner"
    /\ ToolCallsOf(message) = <<>>
    /\ pendingMessages = <<>>
    /\ polls # <<>>
    /\ polls[Len(polls)].queue = "steering"
    /\ polls[Len(polls)].returned = <<>>

C35_PolledAfterInnerLoop ==
    [][/\ FollowUpPolled => InnerLoopExited
       /\ (pc # "idle" /\ Len(followUpQueue') < Len(followUpQueue))
              => FollowUpPolled]_vars

C35_FollowUpAfterSteering ==
    [][/\ FollowUpPolled => InnerLoopExited
       /\ (pc # "idle" /\ Len(followUpQueue') < Len(followUpQueue))
              => FollowUpPolled
       /\ (FollowUpPolled /\ polls'[Len(polls')].returned # <<>>)
              => steeringQueue = <<>>]_vars

\* C36: Complete / CompleteSimple, which call Result() and never read
\* Events(), return the final message for every provider stream of finitely
\* many events that ends with done or error, whatever the number of events
\* before the terminal one.  In finite-run form: while the caller waits in
\* Result() for a result that is not there yet, the provider is not
\* blocked for good in a Push on the full event channel, which nothing
\* reads.
ProviderBlocked ==
    /\ esProd.pc = "sendEvent"
    /\ ~esClosed
    /\ Len(esCh) >= ChannelCapacity

C36_CompleteReturns ==
    (esCons = "inResult" /\ esResultCh = <<>>) => ~ProviderBlocked

\* C37: at most one run is active per Agent: from the moment a run is
\* started until its observer has finished its cleanup, Prompt,
\* PromptMessages and Continue fail with the already-running error, which
\* Agent.runLoop returns exactly when state.IsStreaming is set.
RunActive == opc \in {"recv", "dispatch"}

C37_OneRunAtATime == RunActive => isStreaming

\* C38: a facade entry point that returns an error consumes nothing: when
\* Continue fails, the steering queue and the follow-up queue hold the same
\* messages in the same order as before the call, and IsStreaming is
\* false (no other run being active in the model).
C38_FailedContinueConsumesNothing ==
    [][(ContinueStep /\ lastError' # "") =>
          /\ steeringQueue' = steeringQueue
          /\ followUpQueue' = followUpQueue
          /\ ~isStreaming']_vars

\* C39: no queued message is lost by the loop.  The messages the loop has
\* dequeued from the steering and follow-up providers so far, in dequeue
\* order, are those it has drained followed by those still pending: the
\* drained ones are, once each and in that order, the user messages
\* appended to the context and to the new-messages log after the prompts
\* and the user messages announced by message_start and by message_end
\* after the prompts.  Nothing is pending when the stream function is
\* called or when the run has ended, and agent_end.messages then holds all
\* of them.
RECURSIVE ReturnedBy(_)
ReturnedBy(ps) ==
    IF ps = <<>> THEN <<>>
    ELSE Head(ps).returned \o ReturnedBy(Tail(ps))

UserMessagesAfter(ms, n) ==
    SelectSeq(SubSeq(ms, n + 1, Len(ms)), LAMBDA m : m.role = "user")

UserMessagesOf(events, type) ==
    LET announced == SelectSeq(events, LAMBDA e : /\ e.type = type
                                                  /\ e.msg.role = "user")
    IN  [i \in 1..Len(announced) |-> announced[i].msg]

PromptCount == IF entry = "loop" THEN Len(prompts) ELSE 0

AgentEndPushed ==
    /\ pushed # <<>>
    /\ pushed[Len(pushed)].type = AgentEventEnd

RunEnded ==
    /\ AgentEndPushed
    /\ closed
    /\ ~isStreaming
    /\ opc = "done"

C40_RunTerminates == (pc = "spawned") ~> RunEnded

\* C40 witness: a run that used every turn, with tool calls executed, has
\* ended and the observer has cleared is_streaming.
C40_Witness ==
    /\ RunEnded
    /\ Turn = MaxTurns
    /\ executed # <<>>

====
